---- MODULE Spec2Model ----
(***************************************************************************)
(* Model of 98tang-autosign: the retry manager, the run() workflow of      *)
(* AutoSignApp, the sign-in state machine of SignInManager and the delay   *)
(* policy of TimingManager.                                                *)
(*                                                                         *)
(* Four specifications share the variables; each one drives one part of    *)
(* the program and leaves the other parts in their constructed state:      *)
(*   SpecRetry   RetryManager driven by arbitrary calls                    *)
(*   Spec        AutoSignApp.run()                                         *)
(*   SpecSignIn  SignInManager.sign_in()                                   *)
(*   SpecTiming  TimingManager and the reply loop of HumanlikeBehavior     *)
(***************************************************************************)
EXTENDS Integers, Sequences, FiniteSets, TLC

\* ------------------------------------------------------------------ bounds

\* Largest value of the MAX_RETRIES setting that is tried.
MaxRetriesSetting == 5

\* Depth of nested _verify_signin_success calls at which the interpreter
\* raises RecursionError (the interpreter's recursion limit, scaled down).
RecursionLimit == 2

\* Largest number of <a> elements in the sign area of a page.
MaxButtons == 2

\* Largest value of the COMMENT_INTERVAL setting that is tried.
MaxIntervalSetting == 16

\* Largest number of reply targets of one reply loop.
MaxTargets == 2

\* Largest max_retries a RetryManager is constructed with in SpecRetry.
MaxManagerRetries == 3

\* can_retry is not called on a counter that has reached this value.
MaxCount == 5

\* -------------------------------------------------------- program constants

\* RetryManager(max_retries=3) as AutoSignApp constructs it.
APP_MAX_RETRIES == 3

\* ConfigManager clamps MAX_RETRIES to at least 1.
MIN_MAX_RETRIES == 1

\* _verify_signin_success(max_retries=3)
VERIFY_MAX_RETRIES == 3

\* _navigate_to_signin_page: for attempt in range(3)
NAV_ATTEMPTS == 3

\* TimingManager._global_multiplier = 1.0, in tenths
DEFAULT_MULTIPLIER == 10

\* set_global_multiplier keeps the multiplier within 0.1 .. 5.0 (tenths)
MIN_MULTIPLIER == 1

MAX_MULTIPLIER == 50

\* The floor of the comment interval, in seconds
MIN_COMMENT_INTERVAL == 15

\* The reply interval delay is (interval, interval + 5.0)
REPLY_JITTER == 5

Max(a, b) == IF a >= b THEN a ELSE b

Min(a, b) == IF a <= b THEN a ELSE b

\* ------------------------------------------------------------------- state

VARIABLES
    \* RetryManager
    max_retries,        \* RetryManager.max_retries
    counters,           \* RetryManager.counters, a missing key read as 0
    retry_ret,          \* value returned by the last can_retry call
    \* ConfigManager
    config,             \* the loaded settings the model reads
    \* AutoSignApp.run()
    pc,                 \* position in run()
    login_calls,        \* invocations of SignInManager.login() in this run
    lock_seen,          \* a login() of this run found the account-locked text
    calls_after_lock,   \* login() invocations made after lock_seen became true
    login_result,       \* what _login_with_retry returned: "none", "true", "false"
    task_results,       \* AutoSignApp.task_results
    summary_lines,      \* the task lines of the execution summary, <<>>: no
                        \* summary has been built
    teardown,           \* what the end of run() did, in order: "summary",
                        \* "error_notify", "quit" (the browser really quit),
                        \* "watchdog_stop"
    events,             \* the stages of run() in the order they were entered
    last_error_message, \* run()'s last_error_message
    run_result,         \* what run() returned: "none", "true", "false"
    driver,             \* BrowserDriverManager.driver: "none", "open", "quit"
    error_sends,        \* executions of _send_error_with_log in this run
    humanlike_outcome,  \* the activities: "none", "disabled", "ok", "error"
    signin_outcome,     \* sign_in(): "none", "disabled", "true", "false", "raises"
    signin_status,      \* what the first status check of sign_in() returned
    notify_outcomes,    \* what each send to Telegram of this run did
    raised,             \* an exception reached the except clause of run()
    signal,             \* the signal signal_handler was run for, 0: none
    exiting,            \* the SystemExit of signal_handler is propagating
    exit_code,          \* the exit code of the process, -1: still running
    \* SignInManager.sign_in()
    spc,                \* position in sign_in()
    stack,              \* attempt index of each active _verify_signin_success
    action_ret,         \* value a finished _perform_signin_action returns
    clicks,             \* clicks on the sign button in this call
    reloads,            \* driver.refresh() calls of the confirmation loops
    status_checks,      \* _check_signin_status calls after the first click
    unknown_seen,       \* a status check of this call returned "unknown"
    recheck_after_unknown, \* a reload and status check followed an "unknown"
    signed_seen,        \* a status check of this call returned "already_signed"
    navigation,         \* the _navigate_to_signin_page call that has just
                        \* returned to sign_in(): what its attempts met (log)
                        \* and its result (ret); idle otherwise
    fail_cause,         \* why the last False was returned
    sign_ret,           \* what sign_in() returned: "none", "true", "false"
    \* TimingManager and the reply loop of perform_humanlike_activities
    global_multiplier,  \* TimingManager._global_multiplier, in tenths
    comment_interval_seconds, \* TimingManager._comment_interval_seconds
    reply_interval_delay, \* DELAY_CONFIGS[REPLY_INTERVAL_DELAY], <<min, max>> in s
    last_requested,     \* the interval asked for by the last set_comment_interval
    tpc,                \* position in the reply loop
    reply_targets,      \* len(post_targets)
    reply_index,        \* the loop index i
    posted,             \* a reply of this loop has been submitted
    since_post,         \* ms slept by the program since the last submitted reply
    gap,                \* ms slept between the last two submitted replies, -1: none
    verify_wait,        \* the last wait of the confirmation loop: [attempt,
                        \* cause, slept], slept in ms, attempt 0: none yet
    \* TelegramNotifier.send_batch_notification
    npc,                \* position in send_batch_notification
    primary,            \* what the send of the primary message does
    attachments,        \* notification_data.attachments
    att_index,          \* index of the attachment the loop is at
    successful_attachments, \* successful_attachments
    failed_attachments, \* failed_attachments
    sends,              \* the sends attempted, in order
    batch_ret,          \* what the call returned: "none", "true", "false"
    \* TimeoutProtection and its timer thread
    wcfg,               \* what the timeout callback meets, and the platform
    is_running,         \* TimeoutProtection.is_running
    timer,              \* the threading.Timer: "none", "armed", "fired", "cancelled"
    wmain,              \* main thread: "created", "protected", "stopped"
    wpc,                \* timer thread: position in _timeout_handler
    callback_calls,     \* invocations of the timeout callback
    emergency,          \* the sends of the emergency notification, in order
    term_signals,       \* what _force_terminate has issued, in order
    process,            \* "running", or how the process ended
    \* SignInManager.calculate_math_answer
    question,           \* the question text, a sequence of characters
    math_case,          \* how the text was made: the operands and the operator
    math_answer,        \* the value returned: [kind, value], kind "unset"
                        \* before the call, then "None" or "int"
    \* ElementFinder.find_by_selectors / find_clickable_by_selectors
    finder,             \* which function is called: "displayed" or "clickable"
    selectors,          \* what each selector of the list resolves to
    sel_index,          \* index of the selector the loop is at
    tried,              \* indexes of the selectors evaluated, in order
    find_ret,           \* [kind, index]: "unset", "element", "None", "raises"
    \* SignInManager._check_signin_status called on its own
    status_page,        \* what the sign page shows
    status_ret,         \* the value returned, "unset" before the call
    \* the texts placed in the messages and captions sent to Telegram
    raw_text,           \* a text of the run: a user name, an error message ...
    outbox,             \* the texts placed in MarkdownV2 payloads, in order:
                        \* [field, raw, placed]
    \* BrowserDriverManager and the SafeChrome objects it created
    mdriver,            \* BrowserDriverManager.driver: 0 for None, else the
                        \* index in chromes of the SafeChrome it refers to
    cleanup_done,       \* BrowserDriverManager._is_cleanup_done
    chromes,            \* the SafeChrome objects created, each with _is_closed
                        \* and the number of quit() calls on its raw driver
    frames,             \* the quit_driver calls in progress, innermost last
    handled,            \* signals whose handler has been entered
    phase,              \* "running", "exiting" (sys.exit of the handler),
                        \* "atexit", "ended"
    last_call,          \* the call of the main flow that returned last
    \* HumanlikeBehavior.find_reply_targets called on its own
    tg_pc,              \* "selectors" (the loop over the selectors), "done"
    tg_selector,        \* index of the selector the loop tries next
    post_links,         \* post_links: the URLs of the candidate links found
    reply_count,        \* the argument reply_count
    selected_posts,     \* the URLs of the list returned
    \* LoggerManager.setup_logger and the log directory
    log_pc,             \* "setup" before the call, "done" after it
    log_files,          \* the program log files of the directory, the least
                        \* recently modified first
    max_log_files,      \* the argument max_log_files
    removed_files,      \* the files os.remove has removed
    \* main(): the file system it finds
    config_file         \* the file named by --config exists

retryVars == <<max_retries, counters, retry_ret>>

outcomeVars == <<humanlike_outcome, signin_outcome, signin_status>>

interruptVars == <<raised, signal, exiting, exit_code>>

runVars == <<config, pc, login_calls, lock_seen, calls_after_lock, login_result,
             task_results, events, last_error_message, run_result, driver,
             error_sends, outcomeVars, notify_outcomes, interruptVars,
             summary_lines, teardown>>

signVars == <<spc, stack, action_ret, clicks, reloads, status_checks,
              unknown_seen, recheck_after_unknown, signed_seen, fail_cause,
              sign_ret, navigation>>

timingVars == <<global_multiplier, comment_interval_seconds, reply_interval_delay,
                last_requested, tpc, reply_targets, reply_index, posted,
                since_post, gap, verify_wait>>

notifyVars == <<npc, primary, attachments, att_index, successful_attachments,
                failed_attachments, sends, batch_ret>>

\* The variables of the parts that the four workflow specifications leave alone.
watchdogVars == <<wcfg, is_running, timer, wmain, wpc, callback_calls,
                  emergency, term_signals, process>>

mathVars == <<question, math_case, math_answer>>

finderVars == <<finder, selectors, sel_index, tried, find_ret>>

statusVars == <<status_page, status_ret>>

messageVars == <<raw_text, outbox>>

driverVars == <<mdriver, cleanup_done, chromes, frames, handled, phase,
               last_call>>

targetVars == <<tg_pc, tg_selector, post_links, reply_count, selected_posts>>

logVars == <<log_pc, log_files, max_log_files, removed_files>>

envVars == <<config_file>>

\* The parts added last.
extraVars == <<driverVars, targetVars, logVars, envVars>>

auxVars == <<notifyVars, watchdogVars, mathVars, finderVars, statusVars,
             messageVars, extraVars>>

vars == <<retryVars, runVars, signVars, timingVars, auxVars>>

\* No _navigate_to_signin_page call has just returned.
NoNavigation == [log |-> <<>>, ret |-> "none"]

\* A SignInManager on which sign_in() has not been called.
IdleSign ==
    /\ spc = "idle"
    /\ stack = <<>>
    /\ action_ret = FALSE
    /\ clicks = 0
    /\ reloads = 0
    /\ status_checks = 0
    /\ unknown_seen = FALSE
    /\ recheck_after_unknown = FALSE
    /\ signed_seen = FALSE
    /\ fail_cause = "none"
    /\ sign_ret = "none"
    /\ navigation = NoNavigation

\* TimingManager as the class body defines it, no reply loop running.
IdleTiming ==
    /\ global_multiplier = DEFAULT_MULTIPLIER
    /\ comment_interval_seconds = MIN_COMMENT_INTERVAL
    /\ reply_interval_delay =
           <<MIN_COMMENT_INTERVAL, MIN_COMMENT_INTERVAL + REPLY_JITTER>>
    /\ last_requested = MIN_COMMENT_INTERVAL
    /\ tpc = "idle"
    /\ reply_targets = 0
    /\ reply_index = 0
    /\ posted = FALSE
    /\ since_post = 0
    /\ gap = -1
    /\ verify_wait = [attempt |-> 0, cause |-> "none", slept |-> 0]

\* A TelegramNotifier on which send_batch_notification has not been called.
IdleNotify ==
    /\ npc = "idle"
    /\ primary = "sent"
    /\ attachments = <<>>
    /\ att_index = 0
    /\ successful_attachments = 0
    /\ failed_attachments = 0
    /\ sends = <<>>
    /\ batch_ret = "none"

\* A TimeoutProtection as __init__ leaves it.
NewTimeoutProtection ==
    /\ is_running = FALSE
    /\ timer = "none"
    /\ wmain = "created"
    /\ wpc = "idle"
    /\ callback_calls = 0
    /\ emergency = <<>>
    /\ term_signals = <<>>
    /\ process = "running"

IdleWatchdog ==
    /\ wcfg = [notifier |-> FALSE, log_file |-> FALSE, raises |-> FALSE,
               platform |-> "posix"]
    /\ NewTimeoutProtection

\* No question has been read.
IdleMath ==
    /\ question = <<>>
    /\ math_case = [kind |-> "none", a |-> 0, op |-> "+", b |-> 0]
    /\ math_answer = [kind |-> "unset", value |-> 0]

\* No selector list is being searched.
IdleFinder ==
    /\ finder = "displayed"
    /\ selectors = <<>>
    /\ sel_index = 0
    /\ tried = <<>>
    /\ find_ret = [kind |-> "unset", index |-> 0]

\* No status check has been asked for.
IdleStatus ==
    /\ status_page = [raises |-> FALSE, busy |-> FALSE, area |-> FALSE,
                      buttons |-> <<>>]
    /\ status_ret = "unset"

\* No message has been built.
IdleMessage ==
    /\ raw_text = <<>>
    /\ outbox = <<>>

\* A BrowserDriverManager right after its construction.
InitDriver ==
    /\ mdriver = 0
    /\ cleanup_done = FALSE
    /\ chromes = <<>>
    /\ frames = <<>>
    /\ handled = 0
    /\ phase = "running"
    /\ last_call = "none"

\* find_reply_targets has not been called.
IdleTargets ==
    /\ tg_pc = "idle"
    /\ tg_selector = 0
    /\ post_links = <<>>
    /\ reply_count = 0
    /\ selected_posts = <<>>

\* setup_logger is not looked at.
IdleLogs ==
    /\ log_pc = "idle"
    /\ log_files = <<>>
    /\ max_log_files = 0
    /\ removed_files = {}

\* The configuration file exists.
IdleEnv == config_file = TRUE

\* The parts added last are idle.
IdleExtra == InitDriver /\ IdleTargets /\ IdleLogs /\ IdleEnv

IdleAux ==
    /\ IdleNotify /\ IdleWatchdog /\ IdleMath /\ IdleFinder /\ IdleStatus
    /\ IdleMessage /\ IdleExtra

\* ------------------------------------------------------------ RetryManager

\* The operation names the counters are keyed by; the program uses "login".
Operations == {"login", "signin", "reply"}

\* counters.get(operation, 0)
get_retry_count(c, operation) == c[operation]

\* max(0, max_retries - counters.get(operation, 0))
get_remaining_retries(c, m, operation) == Max(0, m - c[operation])

\* can_retry, first statement: the counter is incremented before it is tested.
CanRetryCounters(c, operation) == [c EXCEPT ![operation] = c[operation] + 1]

CanRetryAllowedOffByOne(c, m, operation) == c[operation] <= m + 1

\* can_retry, return statement, evaluated on the incremented counters.
CanRetryAllowed(c, m, operation) == c[operation] <= m

ResetKeepsCount(c, operation) == c

\* reset written as a clear of the whole dictionary.
ResetClearsAll(c, operation) == [o \in DOMAIN c |-> 0]

\* reset: the counter of the operation is set to 0.
ResetCounters(c, operation) == [c EXCEPT ![operation] = 0]

\* reset_all: counters.clear(), every operation reads 0 again.
ResetAllCounters == [o \in Operations |-> 0]

InitRetryManager(m) ==
    /\ max_retries = m
    /\ counters = [o \in Operations |-> 0]
    /\ retry_ret = TRUE

can_retry(operation) ==
    /\ counters[operation] < MaxCount
    /\ counters' = CanRetryCounters(counters, operation)
    /\ retry_ret' = CanRetryAllowed(counters', max_retries, operation)
    /\ UNCHANGED max_retries

reset(operation) ==
    /\ counters' = ResetCounters(counters, operation)
    /\ UNCHANGED <<max_retries, retry_ret>>

reset_all ==
    /\ counters' = ResetAllCounters
    /\ UNCHANGED <<max_retries, retry_ret>>

\* ----------------------------------------------------------- ConfigManager

\* "max_retries": max(1, int(MAX_RETRIES)).
LoadMaxRetries(setting) == Max(MIN_MAX_RETRIES, setting)

\* The settings run() depends on, as load_config stores them.
LoadConfig(setting, reply, browsing, checkin, telegram) ==
    [max_retries            |-> LoadMaxRetries(setting),
     enable_reply           |-> reply,
     enable_random_browsing |-> browsing,
     enable_checkin         |-> checkin,
     telegram               |-> telegram]

\* What SITE_USERNAME, SITE_PASSWORD and SECURITY_ANSWER may hold: nothing,
\* white space only, or a text.
TextSettings == {"", " ", "text"}

\* str.strip() on these settings.
Strip(setting) == IF setting = " " THEN "" ELSE setting

\* The credentials and the security question settings, as load_config stores
\* them.
LoadCredentials(username, password, ask, answer) ==
    [username                 |-> Strip(username),
     password                 |-> Strip(password),
     enable_security_question |-> ask,
     security_answer          |-> Strip(answer)]

ValidateUsernameOnly(c) ==
    IF c.username = "" THEN "exit_1"
    ELSE IF c.enable_security_question /\ c.security_answer = "" THEN "exit_1"
    ELSE "ok"

\* _validate_config: sys.exit(1) without a user name or a password, and with
\* the security question enabled and no answer to it.
_validate_config(c) ==
    IF c.username = "" \/ c.password = "" THEN "exit_1"
    ELSE IF c.enable_security_question /\ c.security_answer = "" THEN "exit_1"
    ELSE "ok"

\* ------------------------------------------------- SignInManager.login()

\* What the site shows during one login() call.
\*   raises      a driver call of the login steps raises
\*   loginButton the login button is found and clickable
\*   form        the user name and password inputs are found
\*   submit      the submit button is found and clickable
\*   error       the error text of the page after the submission:
\*               "locked" (the extracted message holds the lock-out text),
\*               "locked_js" (the page holds the lock-out text, the message
\*               extracted from errorhandle_login does not), "mismatch", "none"
\*   indicator   a user-name element or another login indicator is found
LoginSites ==
    [raises : BOOLEAN, loginButton : BOOLEAN, form : BOOLEAN, submit : BOOLEAN,
     error : {"none", "mismatch", "locked", "locked_js"}, indicator : BOOLEAN]

\* check_login_error_message: None when the page shows no error text.
check_login_error_message(site) ==
    IF site.error = "none" THEN "None" ELSE site.error

\* check_login_status: an error message means not logged in, otherwise the
\* user-name element or a login indicator decides.
check_login_status(site) ==
    IF check_login_error_message(site) # "None" THEN FALSE ELSE site.indicator

\* login() reaches the submit click.
LoginSubmitted(site) ==
    ~site.raises /\ site.loginButton /\ site.form /\ site.submit

\* The try block of login(): "true", "false", or the exception it raises.
LoginBody(site) ==
    IF site.raises THEN "raise_other"
    ELSE IF ~site.loginButton THEN "false"
    ELSE IF ~site.form THEN "false"
    ELSE IF ~site.submit THEN "false"
    ELSE IF check_login_status(site) THEN "true"
    ELSE IF check_login_error_message(site) = "locked" THEN "raise_locked"
    ELSE "false"

\* login(): the except clause around the whole body turns every exception,
\* the lock-out exception included, into a False return.
login(site) ==
    IF LoginBody(site) \in {"raise_other", "raise_locked"} THEN "false"
    ELSE LoginBody(site)

\* _login_with_retry, one iteration, from the outcome of login():
\* "return_true", "return_false" (lock-out exception) or "loop".
LoginRetryStep(outcome) ==
    CASE outcome = "true" -> "return_true"
      [] outcome = "raise_locked" -> "return_false"
      [] OTHER -> "loop"

\* ------------------------------------------------- SignInManager.sign_in()

SigninStatuses == {"already_signed", "need_signin", "unknown"}

\* sign_in(), from the navigation result, the first status check and the
\* result of _perform_signin_action (used only for "need_signin").
SignInResult(navigated, status, action) ==
    IF ~navigated THEN FALSE
    ELSE IF status = "already_signed" THEN TRUE
    ELSE IF status = "need_signin" THEN action
    ELSE FALSE

\* ------------------------------------------------------- AutoSignApp.run()

RecordTaskResultFirst(results, task_type, success, message) ==
    <<[task_type |-> task_type, success |-> success, message |-> message]>>
    \o results

\* _record_task_result: one TaskResult is appended to task_results.
RecordTaskResult(results, task_type, success, message) ==
    Append(results, [task_type |-> task_type, success |-> success,
                     message |-> message])

\* to_message: the name shown for a task type (the Chinese words for
\* sign-in, reply and browsing), the type itself for any other type.
TaskName(task_type) ==
    CASE task_type = "signin" -> "name_signin"
      [] task_type = "reply" -> "name_reply"
      [] task_type = "browse" -> "name_browse"
      [] OTHER -> task_type

\* to_message: the loop over self.tasks makes one line for each task, from
\* the first to the last.
RECURSIVE SummaryLines(_)
SummaryLines(tasks) ==
    IF tasks = <<>> THEN <<>>
    ELSE <<[name |-> TaskName(Head(tasks).task_type),
            ok |-> Head(tasks).success,
            message |-> Head(tasks).message]>>
         \o SummaryLines(Tail(tasks))

AfterLoginSkipsActivities == "signin"

\* run(), step 4 follows a successful login: the human-like activities.
AfterLogin == "humanlike"

AfterHumanlikeEndsRun == "finally"

\* run(), step 5 follows the human-like activities: the sign-in.
AfterHumanlike == "signin"

\* The positions of run() inside its try block.
TrySteps ==
    {"create_browser", "init_managers", "login_can_retry", "login_call",
     "humanlike", "signin"}

\* The signals main.py installs signal_handler for: SIGINT and SIGTERM.
HandledSignals == {2, 15}

\* What a send to Telegram does: True, False, or an exception inside the
\* notification function.
SendOutcomes == {"sent", "failed", "raises"}

ResultLostOnNotificationError(result, outcome) ==
    IF outcome = "raises" THEN "false" ELSE result

\* _send_execution_summary and _send_error_with_log return None and catch the
\* exceptions of their body: the value run() returns is the one it had.
ResultAfterNotification(result, outcome) == result

\* _perform_signin: the message of the recorded "signin" result; a True
\* sign_in() is recorded as "executed" whatever the status check returned.
SigninMessage(outcome, status) ==
    CASE outcome = "disabled" -> "disabled"
      [] outcome = "true" -> "executed"
      [] outcome = "false" -> "failed"
      [] OTHER -> "error"

ExitCodeIgnoresResult(result, exit_pending, signum) ==
    IF exit_pending THEN 128 + signum ELSE 0

\* main(): 0 when run() returned True, 1 when it returned False; a SystemExit
\* raised by signal_handler passes through main() and ends the process with
\* 128 + signum.
ExitCode(result, exit_pending, signum) ==
    IF exit_pending THEN 128 + signum
    ELSE IF result = "true" THEN 0
    ELSE 1

InitRun ==
    /\ \E setting \in 0..MaxRetriesSetting, reply \in BOOLEAN,
          browsing \in BOOLEAN, checkin \in BOOLEAN, telegram \in BOOLEAN :
            \E username \in TextSettings, password \in TextSettings,
               ask \in BOOLEAN, answer \in {"", "text"} :
                config = LoadConfig(setting, reply, browsing, checkin, telegram)
                         @@ LoadCredentials(username, password, ask, answer)
    /\ pc = "load_config"
    /\ login_calls = 0
    /\ lock_seen = FALSE
    /\ calls_after_lock = 0
    /\ login_result = "none"
    /\ task_results = <<>>
    /\ summary_lines = <<>>
    /\ teardown = <<>>
    /\ events = <<>>
    /\ last_error_message = "unknown"
    /\ run_result = "none"
    /\ driver = "none"
    /\ error_sends = 0
    /\ humanlike_outcome = "none"
    /\ signin_outcome = "none"
    /\ signin_status = "none"
    /\ notify_outcomes = <<>>
    /\ raised = FALSE
    /\ signal = 0
    /\ exiting = FALSE
    /\ exit_code = -1

FailedStepIgnored(message) ==
    /\ last_error_message' = message
    /\ run_result' = "false"
    /\ pc' = "login_call"

\* return False inside the try block of run(): the finally block runs next.
RunFails(message) ==
    /\ last_error_message' = message
    /\ run_result' = "false"
    /\ pc' = "finally"

\* main() constructs AutoSignApp, whose ConfigManager loads and validates the
\* settings before any other component exists: an invalid configuration ends
\* the process with the exit code of sys.exit(1), a valid one lets main() go
\* on to run().
ConstructApp ==
    /\ pc = "load_config"
    /\ IF _validate_config(config) = "exit_1"
       THEN /\ exit_code' = 1
            /\ pc' = "config_exit"
       ELSE /\ pc' = "create_browser"
            /\ UNCHANGED exit_code
    /\ UNCHANGED <<config, login_calls, lock_seen, calls_after_lock,
                   login_result, task_results, events, last_error_message,
                   run_result, driver, error_sends, outcomeVars,
                   notify_outcomes, raised, signal, exiting, summary_lines, teardown>>
    /\ UNCHANGED <<retryVars, signVars, timingVars, auxVars>>

\* Step 1: _create_browser; create_driver returns False on any error.
CreateBrowser ==
    /\ pc = "create_browser"
    /\ events' = Append(events, "create_browser")
    /\ \E created \in BOOLEAN :
        IF created
        THEN /\ driver' = "open"
             /\ pc' = "init_managers"
             /\ UNCHANGED <<last_error_message, run_result>>
        ELSE /\ RunFails("browser")
             /\ UNCHANGED driver
    /\ UNCHANGED <<config, login_calls, lock_seen, calls_after_lock,
                   login_result, task_results, error_sends, outcomeVars,
                   notify_outcomes, interruptVars>>
    /\ UNCHANGED <<retryVars, signVars, timingVars, auxVars>>
    /\ UNCHANGED <<summary_lines, teardown>>

\* Step 2: _initialize_managers; False when a manager cannot be constructed.
InitializeManagers ==
    /\ pc = "init_managers"
    /\ events' = Append(events, "init_managers")
    /\ \E constructed \in BOOLEAN :
        IF constructed /\ driver = "open"
        THEN /\ pc' = "login_can_retry"
             /\ UNCHANGED <<last_error_message, run_result>>
        ELSE RunFails("managers")
    /\ UNCHANGED <<config, login_calls, lock_seen, calls_after_lock,
                   login_result, task_results, driver, error_sends,
                   outcomeVars, notify_outcomes, interruptVars>>
    /\ UNCHANGED <<retryVars, signVars, timingVars, auxVars>>
    /\ UNCHANGED <<summary_lines, teardown>>

\* Step 3, _login_with_retry: the loop condition can_retry("login"); when it
\* is False the function returns False and run() fails with "login".
LoginCanRetry ==
    /\ pc = "login_can_retry"
    /\ counters' = CanRetryCounters(counters, "login")
    /\ retry_ret' = CanRetryAllowed(counters', max_retries, "login")
    /\ IF retry_ret'
       THEN /\ pc' = "login_call"
            /\ UNCHANGED <<login_result, last_error_message, run_result>>
       ELSE /\ login_result' = "false"
            /\ RunFails("login")
    /\ UNCHANGED <<max_retries, config, login_calls, lock_seen,
                   calls_after_lock, task_results, events, driver, error_sends,
                   outcomeVars, notify_outcomes, interruptVars, summary_lines, teardown>>
    /\ UNCHANGED <<signVars, timingVars, auxVars>>

\* Step 3, _login_with_retry: the loop body, one login() call and the
\* handling of its result. On a browser that has been quit every driver call
\* of login() raises.
LoginCall ==
    /\ pc = "login_call"
    /\ \E site \in LoginSites :
        LET step == LoginRetryStep(login(site)) IN
        /\ driver = "quit" => site.raises
        /\ login_calls' = login_calls + 1
        /\ calls_after_lock' = calls_after_lock + (IF lock_seen THEN 1 ELSE 0)
        /\ lock_seen' = (lock_seen \/ (LoginSubmitted(site)
                            /\ site.error \in {"locked", "locked_js"}))
        /\ events' = Append(events, "login")
        /\ CASE step = "return_true" ->
                  /\ counters' = ResetCounters(counters, "login")
                  /\ login_result' = "true"
                  /\ pc' = AfterLogin
                  /\ UNCHANGED <<last_error_message, run_result>>
             [] step = "return_false" ->
                  /\ login_result' = "false"
                  /\ RunFails("login")
                  /\ UNCHANGED counters
             [] OTHER ->
                  /\ pc' = "login_can_retry"
                  /\ UNCHANGED <<counters, login_result, last_error_message,
                                 run_result>>
    /\ UNCHANGED <<max_retries, retry_ret, config, task_results, driver,
                   error_sends, outcomeVars, notify_outcomes, interruptVars,
                   summary_lines, teardown>>
    /\ UNCHANGED <<signVars, timingVars, auxVars>>

\* perform_humanlike_activities: its whole body is inside try/except, so no
\* error of the activities ("error") escapes to the caller.
HumanlikeEscapes(inner) == FALSE

\* Step 4: _perform_humanlike_activities records one "browse" result and
\* returns None, whatever the activities did.
PerformHumanlikeActivities ==
    /\ pc = "humanlike"
    /\ events' = Append(events, "humanlike")
    /\ IF ~config.enable_reply /\ ~config.enable_random_browsing
       THEN /\ humanlike_outcome' = "disabled"
            /\ task_results' =
                   RecordTaskResult(task_results, "browse", TRUE, "disabled")
       ELSE \E inner \in {"ok", "error"} :
              /\ humanlike_outcome' = inner
              /\ task_results' =
                   IF HumanlikeEscapes(inner)
                   THEN RecordTaskResult(task_results, "browse", FALSE, "failed")
                   ELSE RecordTaskResult(task_results, "browse", TRUE, "done")
    /\ pc' = AfterHumanlike
    /\ UNCHANGED <<config, login_calls, lock_seen, calls_after_lock,
                   login_result, last_error_message, run_result, driver,
                   error_sends, signin_outcome, signin_status, notify_outcomes,
                   interruptVars>>
    /\ UNCHANGED <<retryVars, signVars, timingVars, auxVars>>
    /\ UNCHANGED <<summary_lines, teardown>>

\* The error notification of _send_error_with_log: nothing is sent without a
\* notifier, else the send has one of the outcomes.
ErrorNotification(outcome) ==
    /\ error_sends' = error_sends + 1
    /\ notify_outcomes' =
           IF config.telegram THEN Append(notify_outcomes, outcome)
           ELSE notify_outcomes

\* Step 5: _perform_signin; a sign_in() that returns False or raises sends an
\* error notification of its own before run() fails with "signin".
PerformSignin ==
    /\ pc = "signin"
    /\ events' = Append(events, "signin")
    /\ IF ~config.enable_checkin
       THEN /\ signin_outcome' = "disabled"
            /\ signin_status' = "none"
            /\ task_results' = RecordTaskResult(task_results, "signin", TRUE,
                                   SigninMessage("disabled", "none"))
            /\ run_result' = "true"
            /\ pc' = "finally"
            /\ UNCHANGED <<last_error_message, error_sends, notify_outcomes>>
       ELSE \E navigated \in BOOLEAN, status \in SigninStatuses,
               action \in BOOLEAN, signinRaises \in BOOLEAN,
               outcome \in SendOutcomes :
              LET result == IF signinRaises THEN "raises"
                            ELSE IF SignInResult(navigated, status, action)
                            THEN "true" ELSE "false"
              IN
              /\ signin_outcome' = result
              /\ signin_status' =
                     IF navigated /\ ~signinRaises THEN status ELSE "none"
              /\ task_results' =
                     RecordTaskResult(task_results, "signin", result = "true",
                                      SigninMessage(result, signin_status'))
              /\ IF result = "true"
                 THEN /\ run_result' = "true"
                      /\ pc' = "finally"
                      /\ UNCHANGED <<last_error_message, error_sends,
                                     notify_outcomes>>
                 ELSE /\ ErrorNotification(outcome)
                      /\ RunFails("signin")
    /\ UNCHANGED <<config, login_calls, lock_seen, calls_after_lock,
                   login_result, driver, humanlike_outcome, interruptVars>>
    /\ UNCHANGED <<retryVars, signVars, timingVars, auxVars>>
    /\ UNCHANGED <<summary_lines, teardown>>

\* An exception escapes a step of the try block and reaches the except
\* clause of run(): the message is set and run() returns False.
StepRaises ==
    /\ pc \in TrySteps
    /\ raised' = TRUE
    /\ RunFails("exception")
    /\ UNCHANGED <<config, login_calls, lock_seen, calls_after_lock,
                   login_result, task_results, events, driver, error_sends,
                   outcomeVars, notify_outcomes, signal, exiting, exit_code>>
    /\ UNCHANGED <<retryVars, signVars, timingVars, auxVars>>
    /\ UNCHANGED <<summary_lines, teardown>>

\* quit_driver without its guard on driver and _is_cleanup_done: every call
\* quits.
QuitWithoutGuard(d) == <<"quit">>

\* BrowserDriverManager.quit_driver: the browser is quit only when a driver
\* exists and no cleanup was done before; what it adds to the teardown log.
quit_driver(d) == IF d = "open" THEN <<"quit">> ELSE <<>>

\* A handled signal arrives while run() is inside its try block:
\* signal_handler runs cleanup_handler, which quits the browser, and then
\* sys.exit(128 + signum). The SystemExit is raised where the main thread is;
\* inside the selector loop of check_login_error_message the bare except
\* clause catches it and login() goes on (swallowed), anywhere else it passes
\* the except clauses and the finally block of run() is entered.
SignalArrives ==
    /\ pc \in TrySteps
    /\ signal = 0
    /\ \E signum \in HandledSignals, swallowed \in BOOLEAN :
        /\ swallowed => pc = "login_call"
        /\ signal' = signum
        /\ exiting' = ~swallowed
        /\ pc' = IF swallowed THEN pc ELSE "finally"
    /\ driver' = IF driver = "open" THEN "quit" ELSE driver
    /\ teardown' = teardown \o quit_driver(driver)
    /\ UNCHANGED <<config, login_calls, lock_seen, calls_after_lock,
                   login_result, task_results, events, last_error_message,
                   run_result, error_sends, outcomeVars, notify_outcomes,
                   raised, exit_code>>
    /\ UNCHANGED <<retryVars, signVars, timingVars, auxVars>>
    /\ UNCHANGED summary_lines

\* The finally block of run(), first part: the execution summary, and when
\* execution_success is not set the error notification.
SendReports ==
    /\ pc = "finally"
    /\ \E summary \in SendOutcomes, outcome \in SendOutcomes :
        IF run_result = "true"
        THEN /\ events' = Append(events, "summary")
             /\ notify_outcomes' =
                    IF config.telegram THEN Append(notify_outcomes, summary)
                    ELSE notify_outcomes
             /\ run_result' = ResultAfterNotification(run_result, summary)
             /\ teardown' = Append(teardown, "summary")
             /\ UNCHANGED error_sends
        ELSE /\ events' = Append(Append(events, "summary"), "error_notify")
             /\ teardown' = Append(Append(teardown, "summary"), "error_notify")
             /\ notify_outcomes' =
                    IF config.telegram
                    THEN Append(Append(notify_outcomes, summary), outcome)
                    ELSE notify_outcomes
             /\ run_result' = ResultAfterNotification(run_result, outcome)
             /\ error_sends' = error_sends + 1
    /\ summary_lines' =
           IF config.telegram THEN SummaryLines(task_results)
           ELSE summary_lines
    /\ pc' = "cleanup"
    /\ UNCHANGED <<config, login_calls, lock_seen, calls_after_lock,
                   login_result, task_results, last_error_message, driver,
                   outcomeVars, interruptVars>>
    /\ UNCHANGED <<retryVars, signVars, timingVars, auxVars>>

\* The finally block of run(), second part: _cleanup quits the browser; then
\* the with block of run() is left and TimeoutProtectionContext.__exit__
\* stops the watchdog.
Cleanup ==
    /\ pc = "cleanup"
    /\ events' = Append(events, "cleanup")
    /\ driver' = IF driver = "open" THEN "quit" ELSE driver
    /\ teardown' = Append(teardown \o quit_driver(driver), "watchdog_stop")
    /\ pc' = "done"
    /\ UNCHANGED <<config, login_calls, lock_seen, calls_after_lock,
                   login_result, task_results, last_error_message, run_result,
                   error_sends, outcomeVars, notify_outcomes, interruptVars>>
    /\ UNCHANGED <<retryVars, signVars, timingVars, auxVars>>
    /\ UNCHANGED summary_lines

\* main() after app.run(): the process ends with its exit code.
MainReturns ==
    /\ pc = "done"
    /\ exit_code' = ExitCode(run_result, exiting, signal)
    /\ pc' = "exited"
    /\ UNCHANGED <<config, login_calls, lock_seen, calls_after_lock,
                   login_result, task_results, events, last_error_message,
                   run_result, driver, error_sends, outcomeVars,
                   notify_outcomes, raised, signal, exiting>>
    /\ UNCHANGED <<retryVars, signVars, timingVars, auxVars>>
    /\ UNCHANGED <<summary_lines, teardown>>

NextRun ==
    \/ ConstructApp
    \/ CreateBrowser
    \/ InitializeManagers
    \/ LoginCanRetry
    \/ LoginCall
    \/ PerformHumanlikeActivities
    \/ PerformSignin
    \/ StepRaises
    \/ SignalArrives
    \/ SendReports
    \/ Cleanup
    \/ MainReturns

\* AutoSignApp as __init__ leaves it, then run().
Init ==
    InitRetryManager(APP_MAX_RETRIES) /\ InitRun /\ IdleSign /\ IdleTiming /\ IdleAux

Spec == Init /\ [][NextRun]_vars

\* ------------------------------------------- RetryManager under any calls

\* The run() variables while the retry manager is driven on its own.
IdleRun ==
    /\ config = LoadConfig(APP_MAX_RETRIES, TRUE, TRUE, TRUE, FALSE)
               @@ LoadCredentials("text", "text", FALSE, "")
    /\ pc = "idle"
    /\ login_calls = 0
    /\ lock_seen = FALSE
    /\ calls_after_lock = 0
    /\ login_result = "none"
    /\ task_results = <<>>
    /\ summary_lines = <<>>
    /\ teardown = <<>>
    /\ events = <<>>
    /\ last_error_message = "unknown"
    /\ run_result = "none"
    /\ driver = "none"
    /\ error_sends = 0
    /\ humanlike_outcome = "none"
    /\ signin_outcome = "none"
    /\ signin_status = "none"
    /\ notify_outcomes = <<>>
    /\ raised = FALSE
    /\ signal = 0
    /\ exiting = FALSE
    /\ exit_code = -1

InitRetry ==
    /\ \E m \in 1..MaxManagerRetries : InitRetryManager(m)
    /\ IdleRun
    /\ IdleSign
    /\ IdleTiming
    /\ IdleAux

NextRetry ==
    \/ \E operation \in Operations : can_retry(operation) /\ UNCHANGED <<runVars, signVars, timingVars, auxVars>>
    \/ \E operation \in Operations : reset(operation) /\ UNCHANGED <<runVars, signVars, timingVars, auxVars>>
    \/ reset_all /\ UNCHANGED <<runVars, signVars, timingVars, auxVars>>

SpecRetry == InitRetry /\ [][NextRetry]_vars

\* ------------------------------------------------ sign_in() step by step

\* An <a> element of the sign area, by its class and text:
\*   "grey_signed" class ddpc_sign_btn_grey, text holds the already-signed text
\*   "grey_plain"  class ddpc_sign_btn_grey, another text
\*   "grey_red"    both classes, another text
\*   "red"         class ddpc_sign_btn_red
\*   "other"       neither class
\*   "broken"      reading its class or text raises
ButtonKinds == {"grey_signed", "grey_plain", "grey_red", "red", "other", "broken"}

ButtonLists == UNION {[1..n -> ButtonKinds] : n \in 0..MaxButtons}

\* What the sign page shows when the status is checked.
StatusPages ==
    [raises : BOOLEAN, busy : BOOLEAN, area : BOOLEAN, buttons : ButtonLists]

\* _check_signin_status, the loop over the buttons from index i on: the first
\* grey button with the signed text or the first red button decides.
RECURSIVE ScanButtons(_, _)
ScanButtons(buttons, i) ==
    IF i > Len(buttons) THEN "unknown"
    ELSE IF buttons[i] = "broken" THEN ScanButtons(buttons, i + 1)
    ELSE IF buttons[i] \in {"grey_signed", "grey_plain", "grey_red"}
         THEN IF buttons[i] = "grey_signed" THEN "already_signed"
              ELSE ScanButtons(buttons, i + 1)
    ELSE IF buttons[i] = "red" THEN "need_signin"
    ELSE ScanButtons(buttons, i + 1)

StatusIgnoresBusy(page) ==
    IF page.raises THEN "unknown"
    ELSE IF ~page.area THEN "unknown"
    ELSE ScanButtons(page.buttons, 1)

\* _check_signin_status: "unknown" when the check raises, when the page shows
\* a system-busy text and when the sign area is missing; else the buttons of
\* the area decide.
_check_signin_status(page) ==
    IF page.raises THEN "unknown"
    ELSE IF page.busy THEN "unknown"
    ELSE IF ~page.area THEN "unknown"
    ELSE ScanButtons(page.buttons, 1)

\* What each attempt of _navigate_to_signin_page meets.
NavResults == [1..NAV_ATTEMPTS -> {"no_link", "raises", "wrong_url", "ok"}]

NavigationNeverReturnsEarly(results, i) ==
    [j \in 1..(NAV_ATTEMPTS - i + 1) |-> results[i + j - 1]]

\* _navigate_to_signin_page, the loop from attempt i on: what the attempts
\* made met. The attempt whose click leads to the sign page returns True and
\* is the last one; any other attempt is followed by the next.
RECURSIVE NavigationAttempts(_, _)
NavigationAttempts(results, i) ==
    IF i > NAV_ATTEMPTS THEN <<>>
    ELSE IF results[i] = "ok" THEN <<results[i]>>
    ELSE <<results[i]>> \o NavigationAttempts(results, i + 1)

\* _navigate_to_signin_page: True at the first attempt whose click leads to
\* the sign page, False after the last attempt.
_navigate_to_signin_page(results) ==
    \E i \in 1..NAV_ATTEMPTS : results[i] = "ok"

\* What handle_sign_verification meets: no question on the page, a question
\* it answers and submits, a question without a computable answer, a missing
\* answer input, a missing submit button, an exception.
VerificationCases ==
    {"no_question", "solved", "no_answer", "no_input", "no_submit", "raises"}

handle_sign_verification(v) == v \in {"no_question", "solved"}

ClickConfirmsSignin(status) == status \in {"already_signed", "need_signin"}

\* sign_in() and _verify_signin_success: only the status "already_signed"
\* makes them return True.
StatusConfirmsSignin(status) == status = "already_signed"

InitSignIn ==
    /\ spc = "start"
    /\ stack = <<>>
    /\ action_ret = FALSE
    /\ clicks = 0
    /\ reloads = 0
    /\ status_checks = 0
    /\ unknown_seen = FALSE
    /\ recheck_after_unknown = FALSE
    /\ signed_seen = FALSE
    /\ fail_cause = "none"
    /\ sign_ret = "none"
    /\ navigation = NoNavigation

\* sign_in() returns.
SignInReturns(value, cause) ==
    /\ sign_ret' = IF value THEN "true" ELSE "false"
    /\ fail_cause' = IF value THEN fail_cause ELSE cause
    /\ spc' = "done"

\* sign_in(): the home page is loaded and the sign page navigated to.
SignInNavigate ==
    /\ spc = "start"
    /\ \E homeRaises \in BOOLEAN, results \in NavResults :
        IF homeRaises
        THEN /\ SignInReturns(FALSE, "exception")
             /\ UNCHANGED navigation
        ELSE /\ navigation' = [log |-> NavigationAttempts(results, 1),
                                ret |-> IF _navigate_to_signin_page(results)
                                        THEN "true" ELSE "false"]
             /\ spc' = "navigated"
             /\ UNCHANGED <<sign_ret, fail_cause>>
    /\ UNCHANGED <<stack, action_ret, clicks, reloads, status_checks,
                   unknown_seen, recheck_after_unknown, signed_seen>>
    /\ UNCHANGED <<retryVars, runVars, timingVars, auxVars>>

\* sign_in(): a False from _navigate_to_signin_page makes it return False,
\* a True lets it go on to the status check.
NavigationReturns ==
    /\ spc = "navigated"
    /\ IF navigation.ret = "false"
       THEN SignInReturns(FALSE, "navigation")
       ELSE /\ spc' = "first_check"
            /\ UNCHANGED <<sign_ret, fail_cause>>
    /\ navigation' = NoNavigation
    /\ UNCHANGED <<stack, action_ret, clicks, reloads, status_checks,
                   unknown_seen, recheck_after_unknown, signed_seen>>
    /\ UNCHANGED <<retryVars, runVars, timingVars, auxVars>>

\* sign_in(): the first status check decides between done, click and failure.
FirstStatusCheck ==
    /\ spc = "first_check"
    /\ \E page \in StatusPages :
        LET status == _check_signin_status(page) IN
        /\ unknown_seen' = (status = "unknown")
        /\ signed_seen' = (status = "already_signed")
        /\ CASE StatusConfirmsSignin(status) -> SignInReturns(TRUE, "none")
             [] status = "need_signin" ->
                  /\ spc' = "action"
                  /\ UNCHANGED <<sign_ret, fail_cause>>
             [] OTHER -> SignInReturns(FALSE, "unknown")
    /\ UNCHANGED <<stack, action_ret, clicks, reloads, status_checks,
                   recheck_after_unknown>>
    /\ UNCHANGED <<retryVars, runVars, timingVars, auxVars>>
    /\ UNCHANGED navigation

\* _perform_signin_action returns value to its caller.
ActionReturns(value, cause) ==
    /\ action_ret' = value
    /\ fail_cause' = IF value THEN fail_cause ELSE cause
    /\ spc' = "action_ret"

\* _perform_signin_action up to its call of _verify_signin_success. At the
\* recursion limit the call raises RecursionError, which the except clause
\* of the function turns into False.
PerformSigninAction ==
    /\ spc = "action"
    /\ \E button \in {"none", "invalid", "valid", "raises"},
          v \in VerificationCases :
        IF Len(stack) >= RecursionLimit
        THEN /\ ActionReturns(FALSE, "recursion")
             /\ UNCHANGED <<stack, clicks>>
        ELSE CASE button = "none" ->
                    /\ ActionReturns(FALSE, "no_button")
                    /\ UNCHANGED <<stack, clicks>>
               [] button = "invalid" ->
                    /\ ActionReturns(FALSE, "invalid_button")
                    /\ UNCHANGED <<stack, clicks>>
               [] button = "raises" ->
                    /\ ActionReturns(FALSE, "exception")
                    /\ UNCHANGED <<stack, clicks>>
               [] OTHER ->
                    /\ clicks' = clicks + 1
                    /\ IF handle_sign_verification(v)
                       THEN /\ stack' = Append(stack, 0)
                            /\ spc' = "verify"
                            /\ UNCHANGED <<action_ret, fail_cause>>
                       ELSE /\ ActionReturns(FALSE, "verification")
                            /\ UNCHANGED stack
    /\ UNCHANGED <<reloads, status_checks, unknown_seen, recheck_after_unknown,
                   signed_seen, sign_ret>>
    /\ UNCHANGED <<retryVars, runVars, timingVars, auxVars>>
    /\ UNCHANGED navigation

\* The stack with the attempt index of its top frame replaced.
SetAttempt(st, attempt) == [st EXCEPT ![Len(st)] = attempt]

Pop(st) == SubSeq(st, 1, Len(st) - 1)

\* _verify_signin_success returns value; the _perform_signin_action that
\* called it returns the same value.
VerifyReturns(value, cause) ==
    /\ stack' = Pop(stack)
    /\ ActionReturns(value, cause)

\* _verify_signin_success with return False in the place of continue.
VerifyGivesUp(cause) == VerifyReturns(FALSE, cause)

\* _verify_signin_success: the loop goes on with the next attempt, or ends
\* with return False after the last one.
VerifyContinues(cause) ==
    IF stack[Len(stack)] + 1 < VERIFY_MAX_RETRIES
    THEN /\ stack' = SetAttempt(stack, stack[Len(stack)] + 1)
         /\ spc' = "verify"
         /\ UNCHANGED <<action_ret, fail_cause>>
    ELSE VerifyReturns(FALSE, cause)

\* Whether the attempt with this index is followed by another one.
HasNextAttempt(attempt) == attempt < VERIFY_MAX_RETRIES - 1

\* _verify_signin_success, one attempt: reload, busy check, status check.
VerifyAttempt ==
    /\ spc = "verify"
    /\ reloads' = reloads + 1
    /\ \E raises \in BOOLEAN, page \in StatusPages :
        LET attempt == stack[Len(stack)]
            status == _check_signin_status(page)
        IN
        IF raises
        THEN /\ IF HasNextAttempt(attempt)
                THEN VerifyContinues("exception")
                ELSE VerifyReturns(FALSE, "exception")
             /\ UNCHANGED <<status_checks, unknown_seen, recheck_after_unknown,
                            signed_seen>>
        ELSE IF page.busy
        THEN /\ IF HasNextAttempt(attempt)
                THEN VerifyContinues("busy")
                ELSE VerifyReturns(FALSE, "busy")
             /\ UNCHANGED <<status_checks, unknown_seen, recheck_after_unknown,
                            signed_seen>>
        ELSE /\ status_checks' = status_checks + 1
             /\ recheck_after_unknown' = (recheck_after_unknown \/ unknown_seen)
             /\ unknown_seen' = (unknown_seen \/ status = "unknown")
             /\ signed_seen' = (signed_seen \/ status = "already_signed")
             /\ IF StatusConfirmsSignin(status)
                THEN VerifyReturns(TRUE, "none")
                ELSE IF HasNextAttempt(attempt)
                THEN /\ spc' = "action"
                     /\ UNCHANGED <<stack, action_ret, fail_cause>>
                ELSE VerifyReturns(FALSE, status)
    /\ UNCHANGED <<clicks, sign_ret>>
    /\ UNCHANGED <<retryVars, runVars, timingVars, auxVars>>
    /\ UNCHANGED navigation

\* A _perform_signin_action has returned: to sign_in(), which returns the
\* value, or to the _verify_signin_success that re-attempted the click, which
\* returns True or goes on with its next attempt.
ActionReturn ==
    /\ spc = "action_ret"
    /\ IF stack = <<>>
       THEN /\ SignInReturns(action_ret, fail_cause)
            /\ UNCHANGED <<stack, action_ret>>
       ELSE IF action_ret
       THEN /\ stack' = Pop(stack)
            /\ UNCHANGED <<action_ret, fail_cause, spc, sign_ret>>
       ELSE /\ VerifyContinues(fail_cause)
            /\ UNCHANGED sign_ret
    /\ UNCHANGED <<clicks, reloads, status_checks, unknown_seen,
                   recheck_after_unknown, signed_seen>>
    /\ UNCHANGED <<retryVars, runVars, timingVars, auxVars>>
    /\ UNCHANGED navigation

NextSignIn ==
    \/ SignInNavigate
    \/ NavigationReturns
    \/ FirstStatusCheck
    \/ PerformSigninAction
    \/ VerifyAttempt
    \/ ActionReturn

\* A SignInManager on which sign_in() is called once.
InitSignInCall ==
    InitRetryManager(APP_MAX_RETRIES) /\ IdleRun /\ IdleTiming /\ IdleAux
    /\ InitSignIn

SpecSignIn == InitSignInCall /\ [][NextSignIn]_vars

\* ------------------------------------------------------------ TimingManager

\* Times are in milliseconds, multipliers in tenths (1.0 is 10).

\* set_global_multiplier: max(0.1, min(5.0, multiplier))
ClampMultiplier(multiplier) ==
    Max(MIN_MULTIPLIER, Min(MAX_MULTIPLIER, multiplier))

CommentIntervalUnclamped(seconds) == seconds

\* set_comment_interval: max(15, seconds)
CommentInterval(seconds) == Max(MIN_COMMENT_INTERVAL, seconds)

\* set_comment_interval: the REPLY_INTERVAL_DELAY entry for an interval.
ReplyIntervalDelay(interval) == <<interval, interval + REPLY_JITTER>>

\* load_config: "comment_interval" is max(15, int(COMMENT_INTERVAL)).
LoadCommentInterval(setting) == Max(MIN_COMMENT_INTERVAL, setting)

\* DELAY_CONFIGS, <<min, max>> in ms; an unknown type is read as "click".
DelayConfig(delay_type) ==
    CASE delay_type = "scroll" -> <<400, 1200>>
      [] delay_type = "typing" -> <<100, 300>>
      [] delay_type = "page_load" -> <<1000, 2500>>
      [] delay_type = "reading" -> <<800, 2000>>
      [] delay_type = "navigation" -> <<500, 1500>>
      [] delay_type = "reply_interval" ->
            <<reply_interval_delay[1] * 1000, reply_interval_delay[2] * 1000>>
      [] OTHER -> <<300, 800>>

\* smart_wait: the bounds of the delay after the multipliers are applied.
SmartWaitMin(delay_type, multiplier) ==
    (DelayConfig(delay_type)[1] * multiplier * global_multiplier) \div 100

SmartWaitMax(delay_type, multiplier) ==
    (DelayConfig(delay_type)[2] * multiplier * global_multiplier) \div 100

\* smart_wait: the time slept, a random point between the bounds (the two
\* ends are tried).
smart_wait(delay_type, multiplier) ==
    {SmartWaitMin(delay_type, multiplier), SmartWaitMax(delay_type, multiplier)}

\* human_like_scroll: no wait on a short page, else the waits of its four
\* scroll phases (their longest sum is tried).
human_like_scroll ==
    {0,
     SmartWaitMax("reading", 6) + SmartWaitMax("reading", 14)
        + SmartWaitMax("reading", 10) + SmartWaitMax("scroll", 8)}

\* The values of the TIMING_MULTIPLIER setting that are tried (tenths).
MultiplierSettings == {0, 1, 8, 10, 50, 60}

\* The values of the COMMENT_INTERVAL setting that are tried (seconds).
IntervalSettings == {0} \cup ((MIN_COMMENT_INTERVAL - 2)..MaxIntervalSetting)

\* TimingManager.set_global_multiplier
set_global_multiplier ==
    /\ tpc = "idle"
    /\ \E multiplier \in MultiplierSettings :
        global_multiplier' = ClampMultiplier(multiplier)
    /\ UNCHANGED <<comment_interval_seconds, reply_interval_delay, last_requested,
                   tpc, reply_targets, reply_index, posted, since_post, gap>>
    /\ UNCHANGED <<retryVars, runVars, signVars, auxVars>>
    /\ UNCHANGED verify_wait

\* TimingManager.set_comment_interval
set_comment_interval ==
    /\ tpc = "idle"
    /\ \E seconds \in IntervalSettings :
        /\ comment_interval_seconds' = CommentInterval(seconds)
        /\ reply_interval_delay' = ReplyIntervalDelay(comment_interval_seconds')
        /\ last_requested' = seconds
    /\ UNCHANGED <<global_multiplier, tpc, reply_targets, reply_index, posted,
                   since_post, gap>>
    /\ UNCHANGED <<retryVars, runVars, signVars, auxVars>>
    /\ UNCHANGED verify_wait

\* AutoSignApp.__init__: the loaded timing settings are applied.
ApplyTimingConfig ==
    /\ tpc = "idle"
    /\ \E multiplier \in MultiplierSettings, setting \in IntervalSettings :
        /\ global_multiplier' = ClampMultiplier(multiplier)
        /\ comment_interval_seconds' =
               CommentInterval(LoadCommentInterval(setting))
        /\ reply_interval_delay' = ReplyIntervalDelay(comment_interval_seconds')
        /\ last_requested' = setting
    /\ UNCHANGED <<tpc, reply_targets, reply_index, posted, since_post, gap>>
    /\ UNCHANGED <<retryVars, runVars, signVars, auxVars>>
    /\ UNCHANGED verify_wait

\* perform_humanlike_activities: the reply loop starts over the targets found.
\* run() performs the activities before the sign-in, so no wait of the
\* confirmation loop has happened yet.
StartReplies ==
    /\ tpc = "idle"
    /\ verify_wait.attempt = 0
    /\ \E n \in 0..MaxTargets :
        /\ reply_targets' = n
        /\ tpc' = IF n > 0 THEN "reply" ELSE "finished"
    /\ reply_index' = 0
    /\ posted' = FALSE
    /\ since_post' = 0
    /\ gap' = -1
    /\ UNCHANGED <<global_multiplier, comment_interval_seconds,
                   reply_interval_delay, last_requested>>
    /\ UNCHANGED <<retryVars, runVars, signVars, auxVars>>
    /\ UNCHANGED verify_wait

\* The loop goes to the interval wait, or ends after the last target.
AfterReply ==
    tpc' = IF reply_index < reply_targets - 1 THEN "interval" ELSE "finished"

\* reply_to_post for the target with index reply_index. The reply is
\* submitted by the click that follows the page-load, scroll, navigation and
\* click waits; a missing text box or submit button, or an exception, ends the
\* call without a submission.
reply_to_post ==
    /\ tpc = "reply"
    /\ \E outcome \in {"posted", "raises", "no_textarea", "no_submit"},
          load \in smart_wait("page_load", 10), scroll \in human_like_scroll,
          nav \in smart_wait("navigation", 10), click \in smart_wait("click", 8),
          after \in smart_wait("page_load", 10) :
        CASE outcome = "posted" ->
               /\ gap' = IF posted THEN since_post + load + scroll + nav + click
                         ELSE gap
               /\ posted' = TRUE
               /\ since_post' = after
          [] outcome = "raises" ->
               UNCHANGED <<gap, posted, since_post>>
          [] outcome = "no_textarea" ->
               /\ since_post' = since_post + load + scroll
               /\ UNCHANGED <<gap, posted>>
          [] OTHER ->
               /\ since_post' = since_post + load + scroll + nav
               /\ UNCHANGED <<gap, posted>>
    /\ AfterReply
    /\ UNCHANGED <<global_multiplier, comment_interval_seconds,
                   reply_interval_delay, last_requested, reply_targets,
                   reply_index>>
    /\ UNCHANGED <<retryVars, runVars, signVars, auxVars>>
    /\ UNCHANGED verify_wait

\* The wait between two replies: smart_wait(REPLY_INTERVAL_DELAY, 1.0).
ReplyIntervalWait ==
    /\ tpc = "interval"
    /\ \E wait_time \in smart_wait("reply_interval", 10) :
        since_post' = since_post + wait_time
    /\ reply_index' = reply_index + 1
    /\ tpc' = "reply"
    /\ UNCHANGED <<global_multiplier, comment_interval_seconds,
                   reply_interval_delay, last_requested, reply_targets, posted,
                   gap>>
    /\ UNCHANGED <<retryVars, runVars, signVars, auxVars>>
    /\ UNCHANGED verify_wait

\* _verify_signin_success: wait_time is (attempt + 1) * 5 after a busy banner
\* and (attempt + 1) * 2 after need_signin or unknown, where
\* attempt + 1 is the number of the attempt that failed; the number is handed
\* to smart_wait as its delay_type argument.
VerifyWaitArgument(attempt, cause) ==
    IF cause = "busy" THEN ToString(attempt * 5) ELSE ToString(attempt * 2)

\* _verify_signin_success: the wait before the retry that follows the
\* attempt with this number.
VerifyRetryWait ==
    /\ tpc = "idle"
    /\ \E attempt \in 1..(VERIFY_MAX_RETRIES - 1),
          cause \in {"busy", "need_signin", "unknown"} :
        \E wait_time \in smart_wait(VerifyWaitArgument(attempt, cause), 10) :
            verify_wait' = [attempt |-> attempt, cause |-> cause,
                            slept |-> wait_time]
    /\ UNCHANGED <<global_multiplier, comment_interval_seconds,
                   reply_interval_delay, last_requested, tpc, reply_targets,
                   reply_index, posted, since_post, gap>>
    /\ UNCHANGED <<retryVars, runVars, signVars, auxVars>>

NextTiming ==
    \/ VerifyRetryWait
    \/ set_global_multiplier
    \/ set_comment_interval
    \/ ApplyTimingConfig
    \/ StartReplies
    \/ reply_to_post
    \/ ReplyIntervalWait

InitTiming ==
    InitRetryManager(APP_MAX_RETRIES) /\ IdleRun /\ IdleSign /\ IdleTiming
    /\ IdleAux

SpecTiming == InitTiming /\ [][NextTiming]_vars

\* ------------------------------- TelegramNotifier.send_batch_notification

\* Largest number of attachments of one notification.
MaxAttachments == 2

AttachmentTypes == {"screenshot", "log", "html", "document", "other"}

\* An attachment of the list, by what the loop body reads of it:
\*   type  attachment.get("type")
\*   path  "empty" (no path), "missing" (no such file), "present"
\*   send  what the send_* call of the type does: "sent" (True), "failed"
\*         (False), "raises". It is read only for a present file of a known
\*         type, and is "failed" otherwise.
AttachmentInputs ==
    {a \in [type : AttachmentTypes, path : {"empty", "missing", "present"},
            send : {"sent", "failed", "raises"}] :
        (a.path # "present" \/ a.type = "other") => a.send = "failed"}

AttachmentLists == UNION {[1..n -> AttachmentInputs] : n \in 0..MaxAttachments}

\* The loop body with a send that raises treated as no attempt at all.
AttachmentStepDropsRaising(a) ==
    IF a.path # "present" \/ a.type = "other" \/ a.send = "raises"
    THEN "skipped"
    ELSE a.send

\* The loop body for one attachment: "skipped" (continue before any send),
\* "sent", "failed" or "raised" (the except clause of the loop body).
AttachmentStep(a) ==
    IF a.path = "empty" THEN "skipped"
    ELSE IF a.path = "missing" THEN "skipped"
    ELSE IF a.type = "other" THEN "skipped"
    ELSE IF a.send = "raises" THEN "raised"
    ELSE IF a.send = "sent" THEN "sent"
    ELSE "failed"

BatchResultNeedsAttachments(success, failed) == success /\ failed = 0

\* return success: the value of the primary send, whatever the counts are.
BatchResult(success, failed) == success

\* send_batch_notification is called with a notification.
InitNotify ==
    /\ npc = "primary"
    /\ primary \in {"sent", "failed", "raises"}
    /\ attachments \in AttachmentLists
    /\ att_index = 0
    /\ successful_attachments = 0
    /\ failed_attachments = 0
    /\ sends = <<>>
    /\ batch_ret = "none"

\* The primary message is sent first; a False result returns False, an
\* exception is caught by the outer except clause, which returns False.
SendPrimary ==
    /\ npc = "primary"
    /\ sends' = Append(sends, "message")
    /\ IF primary = "sent"
       THEN /\ npc' = "attachments"
            /\ att_index' = 1
            /\ UNCHANGED batch_ret
       ELSE /\ npc' = "done"
            /\ batch_ret' = "false"
            /\ UNCHANGED att_index
    /\ UNCHANGED <<primary, attachments, successful_attachments,
                   failed_attachments>>
    /\ UNCHANGED <<retryVars, runVars, signVars, timingVars, watchdogVars, mathVars,
                   finderVars, statusVars,
                   messageVars, extraVars>>

\* One iteration of the loop over the attachments.
SendAttachment ==
    /\ npc = "attachments"
    /\ att_index <= Len(attachments)
    /\ LET a == attachments[att_index]
           step == AttachmentStep(a)
       IN
       /\ sends' = IF step = "skipped" THEN sends ELSE Append(sends, a.type)
       /\ successful_attachments' =
              successful_attachments + (IF step = "sent" THEN 1 ELSE 0)
       /\ failed_attachments' =
              failed_attachments + (IF step = "sent" THEN 0 ELSE 1)
    /\ att_index' = att_index + 1
    /\ UNCHANGED <<npc, primary, attachments, batch_ret>>
    /\ UNCHANGED <<retryVars, runVars, signVars, timingVars, watchdogVars, mathVars,
                   finderVars, statusVars,
                   messageVars, extraVars>>

\* After the loop: the statistics are logged and success is returned.
BatchReturn ==
    /\ npc = "attachments"
    /\ att_index > Len(attachments)
    /\ batch_ret' = IF BatchResult(primary = "sent", failed_attachments)
                    THEN "true" ELSE "false"
    /\ npc' = "done"
    /\ UNCHANGED <<primary, attachments, att_index, successful_attachments,
                   failed_attachments, sends>>
    /\ UNCHANGED <<retryVars, runVars, signVars, timingVars, watchdogVars, mathVars,
                   finderVars, statusVars,
                   messageVars, extraVars>>

NextNotify ==
    \/ SendPrimary
    \/ SendAttachment
    \/ BatchReturn

InitNotifyCall ==
    InitRetryManager(APP_MAX_RETRIES) /\ IdleRun /\ IdleSign /\ IdleTiming
    /\ IdleWatchdog /\ IdleMath /\ IdleFinder /\ IdleStatus /\ InitNotify
    /\ IdleMessage /\ IdleExtra

SpecNotify == InitNotifyCall /\ [][NextNotify]_vars

\* ------------------------------------ TimeoutProtection and its timer thread

\* The main thread and the timer thread of one live process. Each action is
\* one step of one thread; the steps of the two threads interleave.

\* What the timeout callback (_emergency_notification) meets:
\*   notifier  app_instance.telegram_notifier is configured
\*   log_file  the current log file exists
\*   raises    an exception escapes the callback
\*   platform  os.name: "nt" or "posix"
WatchdogInputs ==
    [notifier : BOOLEAN, log_file : BOOLEAN, raises : BOOLEAN,
     platform : {"nt", "posix"}]

\* _emergency_notification and _send_emergency_telegram_notification: the
\* message is sent when a notifier is configured, then the log file when it
\* exists; nothing is sent without a notifier.
EmergencySends(c) ==
    IF ~c.notifier THEN <<>>
    ELSE IF c.log_file THEN <<"message", "document">>
    ELSE <<"message">>

TerminationSkippedOnRaise(threw) == IF threw THEN "returned" ELSE "terminate"

\* _timeout_handler: after the callback, whether it returned or raised (the
\* except clause only logs), _force_terminate is called.
AfterCallback(threw) == "terminate"

\* _force_terminate: what is issued first on the platform.
FirstTermination(platform) == IF platform = "nt" THEN "_exit" ELSE "SIGTERM"

InitWatchdog ==
    /\ wcfg \in WatchdogInputs
    /\ NewTimeoutProtection

\* TimeoutProtection.start(), called by TimeoutProtectionContext.__enter__.
start ==
    /\ wmain = "created"
    /\ process = "running"
    /\ IF is_running
       THEN UNCHANGED <<is_running, timer>>
       ELSE /\ is_running' = TRUE
            /\ timer' = "armed"
    /\ wmain' = "protected"
    /\ UNCHANGED <<wcfg, wpc, callback_calls, emergency, term_signals, process>>
    /\ UNCHANGED <<retryVars, runVars, signVars, timingVars, notifyVars, mathVars,
                   finderVars, statusVars,
                   messageVars, extraVars>>

\* TimeoutProtection.stop(), called by TimeoutProtectionContext.__exit__:
\* cancel() stops a timer that has not fired yet and has no effect on a
\* handler that is already executing.
stop ==
    /\ wmain = "protected"
    /\ process = "running"
    /\ IF ~is_running
       THEN UNCHANGED <<is_running, timer>>
       ELSE /\ is_running' = FALSE
            /\ timer' = IF timer = "armed" THEN "cancelled" ELSE timer
    /\ wmain' = "stopped"
    /\ UNCHANGED <<wcfg, wpc, callback_calls, emergency, term_signals, process>>
    /\ UNCHANGED <<retryVars, runVars, signVars, timingVars, notifyVars, mathVars,
                   finderVars, statusVars,
                   messageVars, extraVars>>

\* The interval of the threading.Timer passes before it is cancelled: the
\* timer thread calls _timeout_handler.
TimerExpires ==
    /\ timer = "armed"
    /\ process = "running"
    /\ timer' = "fired"
    /\ wpc' = "check"
    /\ UNCHANGED <<wcfg, is_running, wmain, callback_calls, emergency,
                   term_signals, process>>
    /\ UNCHANGED <<retryVars, runVars, signVars, timingVars, notifyVars, mathVars,
                   finderVars, statusVars,
                   messageVars, extraVars>>

\* _timeout_handler: if not self.is_running: return
HandlerCheck ==
    /\ wpc = "check"
    /\ process = "running"
    /\ wpc' = IF ~is_running THEN "returned" ELSE "callback"
    /\ UNCHANGED <<wcfg, is_running, timer, wmain, callback_calls, emergency,
                   term_signals, process>>
    /\ UNCHANGED <<retryVars, runVars, signVars, timingVars, notifyVars, mathVars,
                   finderVars, statusVars,
                   messageVars, extraVars>>

\* _timeout_handler: the timeout callback is invoked inside try/except.
TimeoutCallback ==
    /\ wpc = "callback"
    /\ process = "running"
    /\ callback_calls' = callback_calls + 1
    /\ emergency' = IF wcfg.raises THEN emergency ELSE EmergencySends(wcfg)
    /\ wpc' = AfterCallback(wcfg.raises)
    /\ UNCHANGED <<wcfg, is_running, timer, wmain, term_signals, process>>
    /\ UNCHANGED <<retryVars, runVars, signVars, timingVars, notifyVars, mathVars,
                   finderVars, statusVars,
                   messageVars, extraVars>>

\* _force_terminate with a force_quit_driver call of its own on the timer
\* thread.
ForceTerminateQuitsDriver ==
    /\ wpc = "terminate"
    /\ process = "running"
    /\ term_signals' = Append(term_signals, FirstTermination(wcfg.platform))
    /\ process' = IF wcfg.platform = "nt" THEN "exit_1" ELSE process
    /\ wpc' = IF wcfg.platform = "nt" THEN "ended" ELSE "sleep"
    /\ mdriver' = 0
    /\ UNCHANGED <<wcfg, is_running, timer, wmain, callback_calls, emergency>>
    /\ UNCHANGED <<cleanup_done, chromes, frames, handled, phase, last_call>>
    /\ UNCHANGED <<retryVars, runVars, signVars, timingVars, notifyVars,
                   mathVars, finderVars, statusVars, messageVars, targetVars,
                   logVars, envVars>>

\* _force_terminate: os._exit(1) on Windows, else SIGTERM to the own process.
ForceTerminate ==
    /\ wpc = "terminate"
    /\ process = "running"
    /\ term_signals' = Append(term_signals, FirstTermination(wcfg.platform))
    /\ IF wcfg.platform = "nt"
       THEN /\ process' = "exit_1"
            /\ wpc' = "ended"
       ELSE /\ wpc' = "sleep"
            /\ UNCHANGED process
    /\ UNCHANGED <<wcfg, is_running, timer, wmain, callback_calls, emergency>>
    /\ UNCHANGED <<retryVars, runVars, signVars, timingVars, notifyVars, mathVars,
                   finderVars, statusVars,
                   messageVars, extraVars>>

\* quit_driver, its guard: a driver is referred to and no cleanup was done.
QuitGuard(d, done) == d # 0 /\ ~done

\* The SIGTERM is handled by signal_handler in the main thread before the
\* second of sleep is over: cleanup, which quits the browser of the main
\* flow, and sys.exit(128 + 15).
SigtermExit ==
    /\ wpc = "sleep"
    /\ process = "running"
    /\ process' = "exit_143"
    /\ wpc' = "ended"
    /\ UNCHANGED <<wcfg, is_running, timer, wmain, callback_calls, emergency,
                   term_signals>>
    /\ handled' = handled + 1
    /\ phase' = "exiting"
    /\ IF QuitGuard(mdriver, cleanup_done)
       THEN /\ chromes' = [chromes EXCEPT ![mdriver] =
                               [closed |-> TRUE, quits |-> @.quits + 1]]
            /\ mdriver' = 0
            /\ cleanup_done' = TRUE
       ELSE UNCHANGED <<mdriver, cleanup_done, chromes>>
    /\ UNCHANGED <<frames, last_call>>
    /\ UNCHANGED <<retryVars, runVars, signVars, timingVars, notifyVars,
                   mathVars, finderVars, statusVars, messageVars, targetVars,
                   logVars, envVars>>

\* _force_terminate: after the second of sleep the process is still there
\* and is sent SIGKILL.
ForceKill ==
    /\ wpc = "sleep"
    /\ process = "running"
    /\ term_signals' = Append(term_signals, "SIGKILL")
    /\ process' = "killed"
    /\ wpc' = "ended"
    /\ UNCHANGED <<wcfg, is_running, timer, wmain, callback_calls, emergency>>
    /\ UNCHANGED <<retryVars, runVars, signVars, timingVars, notifyVars, mathVars,
                   finderVars, statusVars,
                   messageVars, extraVars>>

NextWatchdog ==
    \/ start
    \/ stop
    \/ TimerExpires
    \/ HandlerCheck
    \/ TimeoutCallback
    \/ ForceTerminate
    \/ SigtermExit
    \/ ForceKill

\* The driver manager of the main flow while the watchdog runs: no browser
\* yet, or the browser run() created.
WatchedDriver ==
    \E created \in BOOLEAN :
        /\ mdriver = IF created THEN 1 ELSE 0
        /\ chromes = IF created THEN <<[closed |-> FALSE, quits |-> 0]>>
                     ELSE <<>>
        /\ cleanup_done = FALSE
        /\ frames = <<>>
        /\ handled = 0
        /\ phase = "running"
        /\ last_call = IF created THEN "create" ELSE "none"

InitWatchdogProcess ==
    InitRetryManager(APP_MAX_RETRIES) /\ IdleRun /\ IdleSign /\ IdleTiming
    /\ IdleNotify /\ IdleMath /\ IdleFinder /\ IdleStatus /\ InitWatchdog
    /\ IdleMessage /\ WatchedDriver /\ IdleTargets /\ IdleLogs /\ IdleEnv

\* The timer thread is scheduled: a step of the handler that can be taken is
\* taken (the sends of the callback have timeouts).
SpecWatchdog ==
    /\ InitWatchdogProcess
    /\ [][NextWatchdog]_vars
    /\ WF_vars(HandlerCheck)
    /\ WF_vars(TimeoutCallback)
    /\ WF_vars(ForceTerminate)

\* ----------------------------------- SignInManager.calculate_math_answer

\* Largest operand of a question that is tried.
MaxOperand == 20

\* Longest text without a pattern that is tried.
MaxTextLen == 3

DigitChars == <<"0", "1", "2", "3", "4", "5", "6", "7", "8", "9">>

IsDigit(c) == \E d \in 1..10 : DigitChars[d] = c

IsSpace(c) == c = " "

MathOperators == {"+", "-", "*", "/"}

\* int() of one decimal digit.
DigitValue(c) == (CHOOSE d \in 1..10 : DigitChars[d] = c) - 1

\* The decimal digits of n as the page shows them.
RECURSIVE ToDigits(_)
ToDigits(n) ==
    IF n < 10 THEN <<DigitChars[n + 1]>>
    ELSE ToDigits(n \div 10) \o <<DigitChars[(n % 10) + 1]>>

\* \d+ from index i, greedy: the index after the digit run that starts at i
\* (i itself when s[i] is no digit).
RECURSIVE DigitRunEnd(_, _)
DigitRunEnd(s, i) ==
    IF i <= Len(s) /\ IsDigit(s[i]) THEN DigitRunEnd(s, i + 1) ELSE i

\* \s* from index i: the index of the first character that is no space.
RECURSIVE SkipSpaces(_, _)
SkipSpaces(s, i) ==
    IF i <= Len(s) /\ IsSpace(s[i]) THEN SkipSpaces(s, i + 1) ELSE i

\* int(match.group(n)) for the digits s[i..j-1].
RECURSIVE IntOf(_, _, _)
IntOf(s, i, j) ==
    IF j <= i THEN 0 ELSE IntOf(s, i, j - 1) * 10 + DigitValue(s[j - 1])

\* The pattern (\d+)\s*([+\-*/])\s*(\d+) matched at index i: the groups, or
\* ok = FALSE.
MatchAt(s, i) ==
    LET e1 == DigitRunEnd(s, i)
        o == SkipSpaces(s, e1)
        b == SkipSpaces(s, o + 1)
        e2 == DigitRunEnd(s, b)
    IN
    IF e1 > i /\ o <= Len(s) /\ s[o] \in MathOperators /\ e2 > b
    THEN [ok |-> TRUE, num1 |-> IntOf(s, i, e1), operator |-> s[o],
          num2 |-> IntOf(s, b, e2)]
    ELSE [ok |-> FALSE, num1 |-> 0, operator |-> "+", num2 |-> 0]

\* re.search: the match at the leftmost index where the pattern matches.
RECURSIVE Search(_, _)
Search(s, i) ==
    IF i > Len(s) THEN MatchAt(s, i)
    ELSE IF MatchAt(s, i).ok THEN MatchAt(s, i)
    ELSE Search(s, i + 1)

\* A returned integer, and the ZeroDivisionError of x // 0.
IntResult(v) == [kind |-> "int", value |-> v]

ZeroDivisionError == [kind |-> "ZeroDivisionError", value |-> 0]

ApplyOperatorReversed(operator, x, y) ==
    CASE operator = "+" -> IntResult(x + y)
      [] operator = "-" -> IntResult(y - x)
      [] operator = "*" -> IntResult(x * y)
      [] operator = "/" -> IF y = 0 THEN ZeroDivisionError
                           ELSE IntResult(x \div y)

\* The operations table: +, -, * and // (floor division, which raises for a
\* zero divisor).
ApplyOperator(operator, x, y) ==
    CASE operator = "+" -> IntResult(x + y)
      [] operator = "-" -> IntResult(x - y)
      [] operator = "*" -> IntResult(x * y)
      [] operator = "/" -> IF y = 0 THEN ZeroDivisionError
                           ELSE IntResult(x \div y)

\* calculate_math_answer: None without a match; the except clause turns the
\* ZeroDivisionError into None.
calculate_math_answer(s) ==
    LET match == Search(s, 1) IN
    IF ~match.ok THEN [kind |-> "None", value |-> 0]
    ELSE IF ApplyOperator(match.operator, match.num1, match.num2)
                = ZeroDivisionError
         THEN [kind |-> "None", value |-> 0]
    ELSE ApplyOperator(match.operator, match.num1, match.num2)

\* The spaces around the operator, the text before the question and the
\* text after it.
Spacings == {<<>>, <<" ">>, <<" ", " ">>}

Prefixes == {<<>>, <<"Q", "1", ":", " ">>}

Suffixes == {<<>>, <<" ", "=", " ", "?">>}

\* A question text "a op b" as the page shows it.
QuestionText(a, op, b, sp1, sp2, prefix, suffix) ==
    prefix \o ToDigits(a) \o sp1 \o <<op>> \o sp2 \o ToDigits(b) \o suffix

\* Texts that hold no "a op b": no digit before an operator followed by a
\* digit.
NoPatternTexts ==
    UNION {[1..n -> {"1", " ", "=", "?", "x"}] : n \in 0..MaxTextLen}
      \cup UNION {[1..n -> {"+", "/", " ", "x"}] : n \in 0..MaxTextLen}
      \cup {<<"1", "+">>, <<"+", "1">>, <<"1", "x", "2">>, <<"1", " ", "2">>}

InitMath ==
    /\ \/ \E a \in 0..MaxOperand, b \in 0..MaxOperand, op \in MathOperators,
            sp1 \in Spacings, sp2 \in Spacings, prefix \in Prefixes,
            suffix \in Suffixes :
              /\ question = QuestionText(a, op, b, sp1, sp2, prefix, suffix)
              /\ math_case = [kind |-> "pattern", a |-> a, op |-> op, b |-> b]
       \/ /\ question \in NoPatternTexts
          /\ math_case = [kind |-> "none", a |-> 0, op |-> "+", b |-> 0]
    /\ math_answer = [kind |-> "unset", value |-> 0]

\* handle_sign_verification calls calculate_math_answer(question_text).
CalculateMathAnswer ==
    /\ math_answer.kind = "unset"
    /\ math_answer' = calculate_math_answer(question)
    /\ UNCHANGED <<question, math_case>>
    /\ UNCHANGED <<retryVars, runVars, signVars, timingVars, notifyVars,
                   watchdogVars, finderVars, statusVars,
                   messageVars, extraVars>>

NextMath == CalculateMathAnswer

InitMathCall ==
    InitRetryManager(APP_MAX_RETRIES) /\ IdleRun /\ IdleSign /\ IdleTiming
    /\ IdleNotify /\ IdleWatchdog /\ IdleFinder /\ IdleStatus /\ InitMath
    /\ IdleMessage /\ IdleExtra

SpecMath == InitMathCall /\ [][NextMath]_vars

\* ------------------------------------------------------------ ElementFinder

\* Longest selector list that is tried.
MaxSelectors == 3

\* What the page does for one selector within the timeout:
\*   "timeout"  no element is located (TimeoutException)
\*   "hidden"   an element is present, not displayed and not clickable
\*   "match"    an element is present, displayed and clickable
\*   "error"    the driver raises another exception (a stale element, a
\*              browser that has been quit)
SelectorOutcomes == {"timeout", "hidden", "match", "error"}

SelectorLists == UNION {[1..n -> SelectorOutcomes] : n \in 0..MaxSelectors}

SelectorStepReturnsHidden(which, outcome) ==
    CASE outcome = "match" -> "return"
      [] outcome = "hidden" -> "return"
      [] outcome = "error" -> "raise"
      [] OTHER -> "continue"

\* The body of the loop for one selector. find_by_selectors returns a
\* located element that is displayed and goes on after a hidden one;
\* find_clickable_by_selectors waits for a clickable element, a hidden one
\* ends in the TimeoutException. Only TimeoutException and
\* NoSuchElementException are caught, any other exception leaves the function.
SelectorStep(which, outcome) ==
    CASE outcome = "match" -> "return"
      [] outcome = "error" -> "raise"
      [] OTHER -> "continue"

InitFinder ==
    /\ finder \in {"displayed", "clickable"}
    /\ selectors \in SelectorLists
    /\ sel_index = 1
    /\ tried = <<>>
    /\ find_ret = [kind |-> "unset", index |-> 0]

\* One iteration of the loop over the selectors.
TrySelector ==
    /\ find_ret.kind = "unset"
    /\ sel_index <= Len(selectors)
    /\ tried' = Append(tried, sel_index)
    /\ LET step == SelectorStep(finder, selectors[sel_index]) IN
       CASE step = "return" ->
              /\ find_ret' = [kind |-> "element", index |-> sel_index]
              /\ UNCHANGED sel_index
         [] step = "raise" ->
              /\ find_ret' = [kind |-> "raises", index |-> sel_index]
              /\ UNCHANGED sel_index
         [] OTHER ->
              /\ sel_index' = sel_index + 1
              /\ UNCHANGED find_ret
    /\ UNCHANGED <<finder, selectors>>
    /\ UNCHANGED <<retryVars, runVars, signVars, timingVars, notifyVars,
                   watchdogVars, mathVars, statusVars,
                   messageVars, extraVars>>

\* After the loop: return None.
FinderReturnsNone ==
    /\ find_ret.kind = "unset"
    /\ sel_index > Len(selectors)
    /\ find_ret' = [kind |-> "None", index |-> 0]
    /\ UNCHANGED <<finder, selectors, sel_index, tried>>
    /\ UNCHANGED <<retryVars, runVars, signVars, timingVars, notifyVars,
                   watchdogVars, mathVars, statusVars,
                   messageVars, extraVars>>

NextFinder ==
    \/ TrySelector
    \/ FinderReturnsNone

InitFinderCall ==
    InitRetryManager(APP_MAX_RETRIES) /\ IdleRun /\ IdleSign /\ IdleTiming
    /\ IdleNotify /\ IdleWatchdog /\ IdleMath /\ IdleStatus /\ InitFinder
    /\ IdleMessage /\ IdleExtra

SpecFinder == InitFinderCall /\ [][NextFinder]_vars

\* ------------------------------------- _check_signin_status called alone

InitStatus ==
    /\ status_page \in StatusPages
    /\ status_ret = "unset"

\* One call of _check_signin_status on the page.
CheckSigninStatus ==
    /\ status_ret = "unset"
    /\ status_ret' = _check_signin_status(status_page)
    /\ UNCHANGED status_page
    /\ UNCHANGED <<retryVars, runVars, signVars, timingVars, notifyVars,
                   watchdogVars, mathVars, finderVars, messageVars, extraVars>>

NextStatus ==
    \/ CheckSigninStatus

InitStatusCall ==
    InitRetryManager(APP_MAX_RETRIES) /\ IdleRun /\ IdleSign /\ IdleTiming
    /\ IdleNotify /\ IdleWatchdog /\ IdleMath /\ IdleFinder /\ InitStatus
    /\ IdleMessage /\ IdleExtra

SpecStatus == InitStatusCall /\ [][NextStatus]_vars

\* ------------------------------- texts placed in MarkdownV2 messages

\* Longest run-time text that is placed in a message.
MaxFieldLen == 2

\* The backquote character (a string of the module cannot hold it).
Backquote == "backquote"

\* special_chars of _escape_markdown_v2, in the order of the list.
SpecialChars ==
    <<"_", "*", "[", "]", "(", ")", "~", Backquote, ">", "#", "+", "-", "=", "|",
      "{", "}", ".", "!">>

\* The characters the run-time texts are made of: a letter and four of the
\* special characters.
TextChars == {"a", "_", Backquote, ".", "-"}

Texts == UNION {[1..n -> TextChars] : n \in 0..MaxFieldLen}

\* text.replace(char, "\\" + char)
RECURSIVE Replace(_, _)
Replace(text, char) ==
    IF text = <<>> THEN <<>>
    ELSE (IF Head(text) = char THEN <<"\\", char>> ELSE <<Head(text)>>)
         \o Replace(Tail(text), char)

\* The loop over special_chars from its k-th element on.
RECURSIVE EscapeFrom(_, _)
EscapeFrom(text, k) ==
    IF k > Len(SpecialChars) THEN text
    ELSE EscapeFrom(Replace(text, SpecialChars[k]), k + 1)

EscapeNothing(text) == text

\* _escape_markdown_v2; the chain of replace calls of to_message and the
\* local escape_markdown_v2 of send_document do the same.
_escape_markdown_v2(text) == EscapeFrom(text, 1)

\* A text placed in a payload that is sent with parse_mode MarkdownV2.
Placed(field, raw, placed) ==
    [field |-> field, raw |-> raw, placed |-> placed]

InitMessage ==
    /\ raw_text \in Texts
    /\ outbox = <<>>

\* ExecutionSummary.to_message: the user name and the task message are put
\* between backquotes as they are, the task details are escaped.
SendSummaryMessage ==
    /\ outbox = <<>>
    /\ outbox' = <<Placed("username", raw_text, raw_text),
                   Placed("task_message", raw_text, raw_text),
                   Placed("task_details", raw_text,
                          _escape_markdown_v2(raw_text))>>
    /\ UNCHANGED raw_text
    /\ UNCHANGED <<retryVars, runVars, signVars, timingVars, notifyVars,
                   watchdogVars, mathVars, finderVars, statusVars, extraVars>>

\* create_error_notification: the error message, the error type and the
\* screenshot context are escaped.
SendErrorMessage ==
    /\ outbox = <<>>
    /\ outbox' = <<Placed("error_type", raw_text,
                          _escape_markdown_v2(raw_text)),
                   Placed("error_message", raw_text,
                          _escape_markdown_v2(raw_text)),
                   Placed("screenshot_context", raw_text,
                          _escape_markdown_v2(raw_text))>>
    /\ UNCHANGED raw_text
    /\ UNCHANGED <<retryVars, runVars, signVars, timingVars, notifyVars,
                   watchdogVars, mathVars, finderVars, statusVars, extraVars>>

\* capture_and_send_screenshot: the description goes into the caption as it
\* is, and send_screenshot sends the caption with parse_mode MarkdownV2.
SendScreenshotCaption ==
    /\ outbox = <<>>
    /\ outbox' = <<Placed("screenshot_description", raw_text, raw_text)>>
    /\ UNCHANGED raw_text
    /\ UNCHANGED <<retryVars, runVars, signVars, timingVars, notifyVars,
                   watchdogVars, mathVars, finderVars, statusVars, extraVars>>

\* send_document escapes the whole caption.
SendDocumentCaption ==
    /\ outbox = <<>>
    /\ outbox' = <<Placed("document_caption", raw_text,
                          _escape_markdown_v2(raw_text))>>
    /\ UNCHANGED raw_text
    /\ UNCHANGED <<retryVars, runVars, signVars, timingVars, notifyVars,
                   watchdogVars, mathVars, finderVars, statusVars, extraVars>>

NextMessage ==
    \/ SendSummaryMessage
    \/ SendErrorMessage
    \/ SendScreenshotCaption
    \/ SendDocumentCaption

InitMessageCall ==
    InitRetryManager(APP_MAX_RETRIES) /\ IdleRun /\ IdleSign /\ IdleTiming
    /\ IdleNotify /\ IdleWatchdog /\ IdleMath /\ IdleFinder /\ IdleStatus
    /\ InitMessage /\ IdleExtra

SpecMessage == InitMessageCall /\ [][NextMessage]_vars

\* ------------------------------------------------- BrowserDriverManager
\* The BrowserDriverManager with the callers of quit_driver: the main flow,
\* main.py's signal_handler (which runs between two steps of whatever the
\* main thread is doing, then leaves by sys.exit) and the atexit handler.

MaxDrivers == 2

MaxSignals == 2

\* Every group of variables but the ones of the parts added last.
coreVars == <<retryVars, runVars, signVars, timingVars, notifyVars,
              watchdogVars, mathVars, finderVars, statusVars, messageVars>>

\* The innermost quit_driver call in progress.
TopFrame == frames[Len(frames)]

\* The calls in progress around the innermost one.
OuterFrames == SubSeq(frames, 1, Len(frames) - 1)

\* create_driver: a new raw driver in a SafeChrome becomes the manager's
\* driver; when the creation raises, False is returned and nothing changes.
\* _is_cleanup_done is written only by __init__ and by the quit methods.
create_driver(ok) ==
    /\ chromes' = IF ok THEN Append(chromes, [closed |-> FALSE, quits |-> 0])
                  ELSE chromes
    /\ mdriver' = IF ok THEN Len(chromes) + 1 ELSE mdriver
    /\ UNCHANGED cleanup_done

\* The main flow calls create_driver.
CreateDriver ==
    /\ phase = "running"
    /\ frames = <<>>
    /\ Len(chromes) < MaxDrivers
    /\ \E ok \in BOOLEAN : create_driver(ok)
    /\ last_call' = "create"
    /\ UNCHANGED <<frames, handled, phase>>
    /\ UNCHANGED <<coreVars, targetVars, logVars, envVars>>

\* The main flow calls quit_driver (through _cleanup).
CallQuitDriver ==
    /\ phase = "running"
    /\ frames = <<>>
    /\ frames' = <<[pc |-> "enter", chrome |-> 0, by |-> "main"]>>
    /\ UNCHANGED <<mdriver, cleanup_done, chromes, handled, phase, last_call>>
    /\ UNCHANGED <<coreVars, targetVars, logVars, envVars>>

\* A handled signal arrives: signal_handler calls cleanup_handler, which
\* calls _cleanup and so quit_driver, on top of what the main thread was
\* doing.
SignalDuringCleanup ==
    /\ phase # "ended"
    /\ handled < MaxSignals
    /\ handled' = handled + 1
    /\ frames' = Append(frames, [pc |-> "enter", chrome |-> 0, by |-> "signal"])
    /\ UNCHANGED <<mdriver, cleanup_done, chromes, phase, last_call>>
    /\ UNCHANGED <<coreVars, targetVars, logVars, envVars>>

\* The atexit handler runs after the sys.exit of the signal handler:
\* _app_instance is still set, so cleanup_handler calls quit_driver again.
AtexitCleanup ==
    /\ phase = "exiting"
    /\ frames = <<>>
    /\ frames' = <<[pc |-> "enter", chrome |-> 0, by |-> "atexit"]>>
    /\ phase' = "atexit"
    /\ UNCHANGED <<mdriver, cleanup_done, chromes, handled, last_call>>
    /\ UNCHANGED <<coreVars, targetVars, logVars, envVars>>

\* The finally blocks a SystemExit passes on its way out of the calls in
\* progress: SafeChrome.quit marks its object closed, quit_driver sets
\* _is_cleanup_done and drops the reference.
UnwoundChromes(ch) ==
    [c \in 1..Len(ch) |->
        IF \E i \in 1..Len(OuterFrames) :
               OuterFrames[i].pc = "in_raw_quit" /\ OuterFrames[i].chrome = c
        THEN [ch[c] EXCEPT !.closed = TRUE]
        ELSE ch[c]]

InsideTry == \E i \in 1..Len(OuterFrames) : OuterFrames[i].pc # "enter"

\* The innermost quit_driver returns, leaving the manager with the given
\* fields: to the main flow, to the atexit machinery, or to signal_handler,
\* whose sys.exit unwinds every call in progress.
QuitDriverReturns(d, done, ch) ==
    IF TopFrame.by = "signal"
    THEN /\ frames' = <<>>
         /\ chromes' = UnwoundChromes(ch)
         /\ mdriver' = IF InsideTry THEN 0 ELSE d
         /\ cleanup_done' = (done \/ InsideTry)
         /\ phase' = IF phase = "running" THEN "exiting" ELSE "ended"
         /\ UNCHANGED last_call
    ELSE /\ frames' = OuterFrames
         /\ chromes' = ch
         /\ mdriver' = d
         /\ cleanup_done' = done
         /\ phase' = IF TopFrame.by = "atexit" THEN "ended" ELSE phase
         /\ last_call' = IF TopFrame.by = "main" THEN "quit" ELSE last_call

\* The innermost call goes on at the given place.
FrameAt(place, c) ==
    [frames EXCEPT ![Len(frames)] = [@ EXCEPT !.pc = place, !.chrome = c]]

\* quit_driver, the guard and the close() of the windows.
QuitEnter ==
    /\ frames # <<>>
    /\ TopFrame.pc = "enter"
    /\ IF QuitGuard(mdriver, cleanup_done)
       THEN /\ frames' = FrameAt("quit_check", mdriver)
            /\ UNCHANGED <<mdriver, cleanup_done, chromes, phase, last_call>>
       ELSE QuitDriverReturns(mdriver, cleanup_done, chromes)
    /\ UNCHANGED handled
    /\ UNCHANGED <<coreVars, targetVars, logVars, envVars>>

\* SafeChrome.quit up to its call of the raw driver's quit().
SafeChromeQuit ==
    /\ frames # <<>>
    /\ TopFrame.pc = "quit_check"
    /\ IF ~chromes[TopFrame.chrome].closed
       THEN /\ chromes' = [chromes EXCEPT ![TopFrame.chrome].quits = @ + 1]
            /\ frames' = FrameAt("in_raw_quit", TopFrame.chrome)
       ELSE /\ frames' = FrameAt("finally", TopFrame.chrome)
            /\ UNCHANGED chromes
    /\ UNCHANGED <<mdriver, cleanup_done, handled, phase, last_call>>
    /\ UNCHANGED <<coreVars, targetVars, logVars, envVars>>

\* The raw driver's quit() returns or raises; the finally block of
\* SafeChrome.quit marks the object closed.
RawQuitEnds ==
    /\ frames # <<>>
    /\ TopFrame.pc = "in_raw_quit"
    /\ chromes' = [chromes EXCEPT ![TopFrame.chrome].closed = TRUE]
    /\ frames' = FrameAt("finally", TopFrame.chrome)
    /\ UNCHANGED <<mdriver, cleanup_done, handled, phase, last_call>>
    /\ UNCHANGED <<coreVars, targetVars, logVars, envVars>>

\* The finally block of quit_driver.
QuitFinally ==
    /\ frames # <<>>
    /\ TopFrame.pc = "finally"
    /\ QuitDriverReturns(0, TRUE, chromes)
    /\ UNCHANGED handled
    /\ UNCHANGED <<coreVars, targetVars, logVars, envVars>>

NextDriver ==
    \/ CreateDriver
    \/ CallQuitDriver
    \/ SignalDuringCleanup
    \/ AtexitCleanup
    \/ QuitEnter
    \/ SafeChromeQuit
    \/ RawQuitEnds
    \/ QuitFinally

\* A BrowserDriverManager used by the main flow, with signals.
InitDriverCall ==
    InitRetryManager(APP_MAX_RETRIES) /\ IdleRun /\ IdleSign /\ IdleTiming
    /\ IdleNotify /\ IdleWatchdog /\ IdleMath /\ IdleFinder /\ IdleStatus
    /\ IdleMessage /\ InitDriver /\ IdleTargets /\ IdleLogs /\ IdleEnv

SpecDriver == InitDriverCall /\ [][NextDriver]_vars

\* ------------------------------------ HumanlikeBehavior.find_reply_targets

\* Largest number of elements one selector finds (the code reads at most 20).
MaxLinks == 2

\* Largest reply_count asked for.
MaxReplyCount == 2

\* The selectors find_reply_targets tries in turn.
TARGET_SELECTORS == 3

\* The thread URLs of the page, after urljoin.
Urls == {"u1", "u2", "u3"}

\* What one element of the page gives: a candidate link (href and a title of
\* more than 4 characters), or nothing ("skipped").
ElementLists == UNION {[1..n -> Urls \cup {"skipped"}] : n \in 0..MaxLinks}

\* The candidate links of the elements, in page order.
RECURSIVE CandidateLinks(_)
CandidateLinks(elements) ==
    IF elements = <<>> THEN <<>>
    ELSE (IF Head(elements) = "skipped" THEN <<>> ELSE <<Head(elements)>>)
         \o CandidateLinks(Tail(elements))

KeepAllPosts(links, seen) == links

\* The loop over post_links with seen_urls: the first post of each URL is
\* kept.
RECURSIVE UniquePosts(_, _)
UniquePosts(links, seen) ==
    IF links = <<>> THEN <<>>
    ELSE IF Head(links) \in seen THEN UniquePosts(Tail(links), seen)
    ELSE <<Head(links)>> \o UniquePosts(Tail(links), seen \cup {Head(links)})

\* random.shuffle: any order of the posts.
Shuffles(posts) ==
    {[i \in 1..Len(posts) |-> posts[q[i]]] : q \in Permutations(1..Len(posts))}

\* unique_posts[:reply_count] for reply_count >= 0.
FirstPosts(posts, n) == SubSeq(posts, 1, IF n < Len(posts) THEN n ELSE Len(posts))

\* find_reply_targets is called on the second page of the forum section.
InitTargets ==
    /\ tg_pc = "selectors"
    /\ tg_selector = 1
    /\ post_links = <<>>
    /\ reply_count \in 0..MaxReplyCount
    /\ selected_posts = <<>>

\* One iteration of the loop over the selectors: the links of the elements
\* are appended; links found without an exception end the loop, an exception
\* goes on to the next selector with what was appended before it.
TrySelectorLinks ==
    /\ tg_pc = "selectors"
    /\ tg_selector <= TARGET_SELECTORS
    /\ \E elements \in ElementLists, raises \in BOOLEAN :
        /\ post_links' = post_links \o CandidateLinks(elements)
        /\ tg_selector' = IF ~raises /\ post_links' # <<>>
                          THEN TARGET_SELECTORS + 1
                          ELSE tg_selector + 1
    /\ UNCHANGED <<tg_pc, reply_count, selected_posts>>
    /\ UNCHANGED <<coreVars, driverVars, logVars, envVars>>

\* After the loop: the posts are made unique by URL, shuffled, and the first
\* reply_count of them returned.
SelectPosts ==
    /\ tg_pc = "selectors"
    /\ tg_selector > TARGET_SELECTORS
    /\ \E shuffled \in Shuffles(UniquePosts(post_links, {})) :
        selected_posts' = FirstPosts(shuffled, reply_count)
    /\ tg_pc' = "done"
    /\ UNCHANGED <<tg_selector, post_links, reply_count>>
    /\ UNCHANGED <<coreVars, driverVars, logVars, envVars>>

\* An exception outside the selector loop's own try (the page turn, a driver
\* call): the except clause of the function returns [].
FindTargetsFails ==
    /\ tg_pc = "selectors"
    /\ selected_posts' = <<>>
    /\ tg_pc' = "failed"
    /\ UNCHANGED <<tg_selector, post_links, reply_count>>
    /\ UNCHANGED <<coreVars, driverVars, logVars, envVars>>

NextTargets ==
    \/ TrySelectorLinks
    \/ SelectPosts
    \/ FindTargetsFails

InitTargetsCall ==
    InitRetryManager(APP_MAX_RETRIES) /\ IdleRun /\ IdleSign /\ IdleTiming
    /\ IdleNotify /\ IdleWatchdog /\ IdleMath /\ IdleFinder /\ IdleStatus
    /\ IdleMessage /\ InitDriver /\ InitTargets /\ IdleLogs /\ IdleEnv

SpecTargets == InitTargetsCall /\ [][NextTargets]_vars

\* ------------------------------------------------------------------ main()

\* main(): a configuration file that does not exist makes it print a hint
\* and return 1 before AutoSignApp is constructed.
ConfigFileCheck(exists) == IF exists THEN "construct" ELSE "return_1"

\* main() up to the call of run(): the check of the configuration file, then
\* the construction of the application.
MainStarts ==
    IF ConfigFileCheck(config_file) = "construct"
    THEN ConstructApp
    ELSE /\ pc = "load_config"
         /\ exit_code' = 1
         /\ pc' = "config_missing"
         /\ UNCHANGED <<config, login_calls, lock_seen, calls_after_lock,
                        login_result, task_results, events, last_error_message,
                        run_result, driver, error_sends, outcomeVars,
                        notify_outcomes, raised, signal, exiting,
                        summary_lines, teardown>>
         /\ UNCHANGED <<retryVars, signVars, timingVars, auxVars>>

NextMain ==
    \/ MainStarts

\* The process is started with or without its configuration file; the
\* settings are the ones os.getenv gives once load_config has run.
InitMainCall ==
    InitRetryManager(APP_MAX_RETRIES) /\ InitRun /\ IdleSign /\ IdleTiming
    /\ IdleNotify /\ IdleWatchdog /\ IdleMath /\ IdleFinder /\ IdleStatus
    /\ IdleMessage /\ InitDriver /\ IdleTargets /\ IdleLogs
    /\ config_file \in BOOLEAN

SpecMain == InitMainCall /\ [][NextMain]_vars

\* ------------------------------------------- LoggerManager.setup_logger

MaxLogFiles == 3
MaxKeep == 3

\* What os.path.getsize tells about a file the glob has listed: a size above
\* zero, zero, or OSError (a dangling link, a file that cannot be accessed).
FileKinds == {"valid", "empty", "unreadable"}

\* A program log file: id is its rank by modification time (1 the least
\* recently modified), removable tells whether os.remove succeeds on it.
LogFile(i, kind, removable) == [id |-> i, kind |-> kind, removable |-> removable]

\* The directories with n program log files.
RECURSIVE Directories(_)
Directories(n) ==
    IF n = 0 THEN {<<>>}
    ELSE {Append(d, LogFile(n, k, r)) :
            d \in Directories(n - 1), k \in FileKinds, r \in BOOLEAN}

RECURSIVE Reversed(_)
Reversed(s) == IF s = <<>> THEN <<>> ELSE Append(Reversed(Tail(s)), Head(s))

\* The two loops over the listed files: getsize above zero gives a valid
\* file, zero an empty one, OSError skips the file.
valid_log_files(files) == SelectSeq(files, LAMBDA f : f.kind = "valid")
empty_log_files(files) == SelectSeq(files, LAMBDA f : f.kind = "empty")

\* valid_log_files.sort(key=os.path.getmtime, reverse=True): the most
\* recently modified first.
SortNewestFirst(valid) == Reversed(valid)

\* A slice that keeps max_files files of the sorted list, no place left for
\* the new file.
DeleteBeyondMaxFiles(sorted, max_files) ==
    IF Len(sorted) > max_files
    THEN SubSeq(sorted, max_files + 1, Len(sorted))
    ELSE <<>>

\* if len(valid_log_files) >= max_files:
\*     files_to_delete = valid_log_files[max_files - 1:]
\* Python's index max_files - 1 is position max_files here.
files_to_delete(sorted, max_files) ==
    IF Len(sorted) >= max_files
    THEN SubSeq(sorted, max_files, Len(sorted))
    ELSE <<>>

\* os.remove inside try/except OSError: a file that cannot be removed stays,
\* and the loop goes on.
RemovedOf(files) == {files[i] : i \in {j \in 1..Len(files) : files[j].removable}}

\* _cleanup_old_logs: the files it removes from the directory.
_cleanup_old_logs(files, max_files) ==
    RemovedOf(empty_log_files(files))
        \cup RemovedOf(files_to_delete(SortNewestFirst(valid_log_files(files)),
                                       max_files))

\* The file the FileHandler creates; the initialisation record written to it
\* makes it non-empty, and it is the most recently modified one.
NewLogFile(files) == LogFile(Len(files) + 1, "valid", TRUE)

InitLogs ==
    /\ log_pc = "setup"
    /\ log_files \in UNION {Directories(n) : n \in 0..MaxLogFiles}
    /\ max_log_files \in 1..MaxKeep
    /\ removed_files = {}

\* setup_logger, first call of the process: the clean-up, then the new file.
SetupLogger ==
    /\ log_pc = "setup"
    /\ LET gone == _cleanup_old_logs(log_files, max_log_files)
       IN  /\ removed_files' = gone
           /\ log_files' = Append(SelectSeq(log_files, LAMBDA f : f \notin gone),
                                  NewLogFile(log_files))
    /\ log_pc' = "done"
    /\ UNCHANGED max_log_files
    /\ UNCHANGED <<coreVars, driverVars, targetVars, envVars>>

NextLogs ==
    \/ SetupLogger

InitLogsCall ==
    InitRetryManager(APP_MAX_RETRIES) /\ IdleRun /\ IdleSign /\ IdleTiming
    /\ IdleNotify /\ IdleWatchdog /\ IdleMath /\ IdleFinder /\ IdleStatus
    /\ IdleMessage /\ InitDriver /\ IdleTargets /\ InitLogs /\ IdleEnv

SpecLogs == InitLogsCall /\ [][NextLogs]_vars

\* ================================================================= claims

\* C1: once a login submission has shown the account-locked text, login() is
\* not invoked again in that run.
C1_LockoutStopsRetries == calls_after_lock = 0

\* C2: a run invokes login() at most max_retries times.
C2_LoginCallsAtMostMax == login_calls <= max_retries

\* C2 witness: the retries are used up, login() was invoked max_retries times.
C2_Witness ==
    login_result = "false" /\ login_calls = max_retries /\ ~retry_ret

\* C3: the stored attempt count of every operation is at most max_retries.
C3_CountAtMostMax == \A o \in Operations : counters[o] <= max_retries

\* C4: when _login_with_retry has returned True the "login" counter is zero
\* and all retries remain.
C4_CounterZeroAfterSuccess ==
    login_result = "true" =>
        /\ get_retry_count(counters, "login") = 0
        /\ get_remaining_retries(counters, max_retries, "login") = max_retries

\* C4 witness: a login that succeeded after failed attempts.
C4_Witness == login_result = "true" /\ login_calls >= 2

\* C5: the number of login() invocations never exceeds the max_retries value
\* of the loaded configuration.
C5_LoginCallsAtMostConfigured == login_calls <= config.max_retries

\* The stage a step of run() belongs to, in the order login, human-like
\* activities, sign-in, notification, cleanup.
StageRank(e) ==
    CASE e \in {"create_browser", "init_managers"} -> 0
      [] e = "login" -> 1
      [] e = "humanlike" -> 2
      [] e = "signin" -> 3
      [] e \in {"summary", "error_notify"} -> 4
      [] e = "cleanup" -> 5

C6_AtMostThreeRechecks == reloads <= VERIFY_MAX_RETRIES

\* C7: sign_in() never returns failure because of an unknown status without
\* having reloaded the page and checked the status again.
C7_UnknownIsRechecked ==
    (sign_ret = "false" /\ fail_cause = "unknown") => recheck_after_unknown

\* C9: between two consecutive reply posts the program waits at least 15
\* seconds.
C9_ReplyGapAtLeast15s == gap = -1 \/ gap >= 15000

\* C10: the stored comment interval is max(15, requested) and the reply
\* interval delay range is [interval, interval + 5].
C10_IntervalClamped ==
    /\ comment_interval_seconds =
           (IF last_requested < 15 THEN 15 ELSE last_requested)
    /\ reply_interval_delay =
           <<comment_interval_seconds, comment_interval_seconds + 5>>

\* C10 witness: an interval below 15 was asked for and 15 is stored.
C10_Witness ==
    /\ last_requested < 15
    /\ comment_interval_seconds = 15
    /\ reply_interval_delay = <<15, 20>>

\* C11: send_batch_notification returns True exactly when the send of the
\* primary message succeeded, whatever happened to the attachments.
C11_BatchResultIsPrimary ==
    npc = "done" => (batch_ret = "true" <=> primary = "sent")

\* C11 witness: the primary message was sent, every one of two or more
\* attachments failed (one of them by an exception) and True was returned.
C11_Witness ==
    /\ npc = "done"
    /\ batch_ret = "true"
    /\ Len(attachments) >= 2
    /\ successful_attachments = 0
    /\ \E i \in 1..Len(attachments) : AttachmentStep(attachments[i]) = "raised"

\* C12: a timeout handler that finds the protection running invokes the
\* timeout callback and initiates the forced termination after it, also when
\* the callback raises, no notifier is configured or no log file exists; the
\* termination is never initiated before the callback has been invoked.
C12_CallbackThenTermination ==
    /\ [](term_signals # <<>> => callback_calls = 1)
    /\ (wpc = "callback") ~> (callback_calls = 1 /\ term_signals # <<>>)

\* C12 witness: the termination was initiated after a callback that raised,
\* without a notifier and without a log file.
C12_Witness ==
    /\ term_signals # <<>>
    /\ callback_calls = 1
    /\ wcfg.raises /\ ~wcfg.notifier /\ ~wcfg.log_file

\* The sign-in step of the run ended well: sign_in() returned True or the
\* sign-in is disabled.
SigninSucceeded == signin_outcome \in {"true", "disabled"}

\* C13: a failure of the human-like activities never aborts the run: the
\* sign-in step is carried out after them, and run() returns what the sign-in
\* step alone determines, the same value as after successful activities.
C13_ActivitiesNeverAbort ==
    (pc = "exited" /\ humanlike_outcome # "none" /\ ~raised /\ signal = 0) =>
        /\ signin_outcome # "none"
        /\ run_result = IF SigninSucceeded THEN "true" ELSE "false"

\* C13 witness: the activities failed, the sign-in was carried out and the
\* run returned True.
C13_Witness ==
    /\ pc = "exited"
    /\ humanlike_outcome = "error"
    /\ signin_outcome = "true"
    /\ run_result = "true"

\* What run() returns and the exit code, from the course of the workflow
\* alone (no notification outcome is read).
ExpectedResult ==
    IF exiting THEN "none" ELSE IF SigninSucceeded THEN "true" ELSE "false"

ExpectedExit ==
    IF exiting THEN 128 + signal ELSE IF SigninSucceeded THEN 0 ELSE 1

\* C14: the value run() returns and the exit code of the process are
\* determined by the workflow and do not depend on whether the sends to
\* Telegram succeed, fail or raise.
C14_NotificationIndependent ==
    pc = "exited" => (run_result = ExpectedResult /\ exit_code = ExpectedExit)

\* C14 witness: a successful run whose summary send raised, exit code 0.
C14_Witness ==
    /\ pc = "exited"
    /\ exit_code = 0
    /\ \E i \in 1..Len(notify_outcomes) : notify_outcomes[i] = "raises"

\* C15: an exception of a step of run() is caught: the failure summary and
\* the error notification are attempted, cleanup runs, run() returns False
\* and the exit code is 1.
C15_ExceptionCaught ==
    (raised /\ pc = "exited") =>
        /\ run_result = "false"
        /\ exit_code = 1
        /\ \E i, j, k \in 1..Len(events) :
              /\ i < j /\ j < k
              /\ events[i] = "summary"
              /\ events[j] = "error_notify"
              /\ events[k] = "cleanup"

\* C15 witness: the sign-in step raised in a run whose login had succeeded.
C15_Witness ==
    /\ raised
    /\ pc = "exited"
    /\ login_result = "true"
    /\ exit_code = 1

\* C16: the exit code is 128 + signum when a handled signal arrived during
\* the run, else 0 when run() returned True after a successful sign-in step
\* and 1 otherwise.
C16_ExitCodeFollowsOutcome ==
    pc = "exited" =>
        exit_code = (IF signal # 0 THEN 128 + signal
                     ELSE IF run_result = "true" /\ SigninSucceeded THEN 0
                     ELSE 1)

\* C17: with a successful login and a sign page already in the signed state
\* the "signin" task is recorded as a success with the already-signed
\* message, run() returns True and the exit code is 0.
C17_AlreadySignedReported ==
    (pc = "exited" /\ login_result = "true" /\ signin_outcome = "true"
        /\ signin_status = "already_signed") =>
        /\ task_results[Len(task_results)] =
               [task_type |-> "signin", success |-> TRUE,
                message |-> "already_signed"]
        /\ run_result = "true"
        /\ exit_code = 0

\* calculate_math_answer returned the integer v, or returned None.
Answered(v) == math_answer = [kind |-> "int", value |-> v]

NoAnswer == math_answer = [kind |-> "None", value |-> 0]

\* C18: for a text that holds "a op b" calculate_math_answer returns a + b,
\* a - b, a * b or the floor of a / b, and None for a division by zero; for
\* a text without such a pattern it returns None.
C18_MathAnswer ==
    math_answer.kind # "unset" =>
        IF math_case.kind = "none" THEN NoAnswer
        ELSE CASE math_case.op = "+" -> Answered(math_case.a + math_case.b)
               [] math_case.op = "-" -> Answered(math_case.a - math_case.b)
               [] math_case.op = "*" -> Answered(math_case.a * math_case.b)
               [] math_case.op = "/" ->
                    IF math_case.b = 0 THEN NoAnswer
                    ELSE /\ math_answer.kind = "int"
                         /\ math_answer.value * math_case.b <= math_case.a
                         /\ math_case.a < (math_answer.value + 1) * math_case.b

\* C18 witness: "20 / 4 = ?" has been answered with 5.
C18_Witness ==
    /\ question = <<"2", "0", " ", "/", " ", "4", " ", "=", " ", "?">>
    /\ Answered(5)

\* The index of the first selector of the list with this outcome, 0: none.
FirstIndex(outcome) ==
    IF \E i \in 1..Len(selectors) : selectors[i] = outcome
    THEN CHOOSE i \in 1..Len(selectors) :
            /\ selectors[i] = outcome
            /\ \A j \in 1..(i - 1) : selectors[j] # outcome
    ELSE 0

\* The selectors are evaluated in list order, each one once.
TriedInOrder == \A i \in 1..Len(tried) : tried[i] = i

HasSignedButton ==
    /\ status_page.area
    /\ \E i \in 1..Len(status_page.buttons) :
          status_page.buttons[i] = "grey_signed"

\* A button of the sign area carries the red class.
HasRedButton ==
    /\ status_page.area
    /\ \E i \in 1..Len(status_page.buttons) :
          status_page.buttons[i] \in {"red", "grey_red"}

StatusValues == {"already_signed", "need_signin", "unknown"}

\* C20 as stated: "already_signed" when a button of the sign area carries the
\* grey class and the already-signed text, "need_signin" when a button carries
\* the red class, "unknown" when neither is found or the check raises; no
\* other value is returned. (A page with both kinds of button is left open.)
C20_StatusClassified ==
    status_ret # "unset" =>
        /\ status_ret \in StatusValues
        /\ (~status_page.raises /\ HasSignedButton /\ ~HasRedButton)
              => status_ret = "already_signed"
        /\ (~status_page.raises /\ HasRedButton /\ ~HasSignedButton)
              => status_ret = "need_signin"
        /\ (status_page.raises \/ (~HasSignedButton /\ ~HasRedButton))
              => status_ret = "unknown"

\* The buttons are looked at: the check does not raise, the page shows no
\* system-busy text and the sign area is found.
ButtonsChecked ==
    ~status_page.raises /\ ~status_page.busy /\ status_page.area

\* A button that decides the status: grey with the already-signed text, or
\* red without the grey class.
Decisive(i) == status_page.buttons[i] \in {"grey_signed", "red"}

\* The index of the first deciding button in document order, 0: none.
FirstDecisive ==
    IF \E i \in 1..Len(status_page.buttons) : Decisive(i)
    THEN CHOOSE i \in 1..Len(status_page.buttons) :
            /\ Decisive(i)
            /\ \A j \in 1..(i - 1) : ~Decisive(j)
    ELSE 0

\* C20 as amended: only the three values are returned; when the buttons are
\* looked at, the first deciding button in document order gives
\* "already_signed" or "need_signin"; in every other case the result is
\* "unknown".
C20_StatusByFirstDecisiveButton ==
    status_ret # "unset" =>
        /\ status_ret \in StatusValues
        /\ status_ret = "already_signed" <=>
              /\ ButtonsChecked
              /\ FirstDecisive # 0
              /\ status_page.buttons[FirstDecisive] = "grey_signed"
        /\ status_ret = "need_signin" <=>
              /\ ButtonsChecked
              /\ FirstDecisive # 0
              /\ status_page.buttons[FirstDecisive] = "red"

\* C20 witness: the second button of the area is grey with the signed text,
\* the first one is grey with another text; the status is "already_signed".
C20_Witness ==
    /\ status_page = [raises |-> FALSE, busy |-> FALSE, area |-> TRUE,
                      buttons |-> <<"grey_plain", "grey_signed">>]
    /\ status_ret = "already_signed"

SpecialCharSet == {SpecialChars[k] : k \in 1..Len(SpecialChars)}

\* The text with a backslash put before each of its special characters.
RECURSIVE EscapeEach(_)
EscapeEach(text) ==
    IF text = <<>> THEN <<>>
    ELSE (IF Head(text) \in SpecialCharSet THEN <<"\\", Head(text)>>
          ELSE <<Head(text)>>)
         \o EscapeEach(Tail(text))

\* C21: every run-time text placed in a payload sent in MarkdownV2 mode has
\* each of its special characters escaped with a backslash.
C21_TextsEscaped ==
    \A i \in 1..Len(outbox) : outbox[i].placed = EscapeEach(outbox[i].raw)

\* The texts that the code does escape are escaped as C21 says.
C21_EscapedFields ==
    \A i \in 1..Len(outbox) :
        outbox[i].field \notin
            {"username", "task_message", "screenshot_description"}
        => outbox[i].placed = EscapeEach(outbox[i].raw)

\* A summary whose user name holds a backquote has been sent.
C21_Witness ==
    /\ Len(outbox) = 3
    /\ outbox[1].field = "username"
    /\ outbox[1].raw = <<"a", Backquote>>
    /\ outbox[3].placed = <<"a", "\\", Backquote>>

\* The first sequence is the beginning of the second one.
IsPrefix(s, t) ==
    /\ Len(s) <= Len(t)
    /\ \A i \in 1..Len(s) : s[i] = t[i]

\* C22, first part: every step of a run leaves task_results as it is or adds
\* one record at its end; no record already in the list is removed, moved or
\* changed.
C22_AppendOnlyStep ==
    /\ IsPrefix(task_results, task_results')
    /\ Len(task_results') <= Len(task_results) + 1

\* C22: the task result list is append-only within a run, and the summary
\* lists the records in the order in which they were recorded.
C22_TaskResultsAppendOnly ==
    /\ [][C22_AppendOnlyStep]_vars
    /\ [](summary_lines # <<>> =>
            /\ Len(summary_lines) = Len(task_results)
            /\ \A i \in 1..Len(task_results) :
                  /\ summary_lines[i].name = TaskName(task_results[i].task_type)
                  /\ summary_lines[i].ok = task_results[i].success
                  /\ summary_lines[i].message = task_results[i].message)

\* C22 witness: a summary with two lines has been built, the browse record
\* before the sign-in record.
C22_Witness ==
    /\ Len(task_results) = 2
    /\ task_results[1].task_type = "browse"
    /\ task_results[2].task_type = "signin"
    /\ Len(summary_lines) = 2
    /\ summary_lines[1].name = "name_browse"

\* The user name or the password is empty after the settings are loaded.
CredentialsMissing == config.username = "" \/ config.password = ""

\* C23: with an empty user name or password the process ends with exit code 1
\* during configuration loading: no browser is launched and login() is never
\* invoked.
C23_MissingCredentialsExit ==
    (CredentialsMissing /\ pc # "load_config") =>
        /\ pc = "config_exit"
        /\ exit_code = 1
        /\ driver = "none"
        /\ login_calls = 0
        /\ events = <<>>

\* C23 witness: the password holds white space only and the process has ended
\* with exit code 1.
C23_Witness ==
    /\ config.username = "text"
    /\ config.password = ""
    /\ ~config.enable_security_question
    /\ pc = "config_exit"
    /\ exit_code = 1

\* C24: sign_in() ends by its own retry logic after finitely many clicks and
\* reloads, whatever the site shows: the nesting of _perform_signin_action and
\* _verify_signin_success stays below the interpreter's recursion limit, so
\* that no call is ended by a RecursionError.
C24_SignInTerminates ==
    /\ ~(spc = "action" /\ Len(stack) >= RecursionLimit)
    /\ fail_cause # "recursion"

\* C25: once stop() has returned, the watchdog does not run the timeout
\* callback and does not force-terminate the process, in any interleaving of
\* the timer thread with the main thread.
C25_NothingAfterStop ==
    [][wmain = "stopped" =>
          /\ callback_calls' = callback_calls
          /\ term_signals' = term_signals
          /\ process' = process]_vars

\* The seconds the confirmation loop means to wait before the retry that
\* follows the attempt with this number.
LinearWait(attempt, cause) ==
    IF cause = "busy" THEN 5 * attempt ELSE 2 * attempt

\* C26: the wait before the retry that follows attempt k is really slept and
\* grows linearly: at least 5*k seconds after a busy banner, at least 2*k
\* seconds after a "need_signin" or unknown status.
C26_LinearBackoffSlept ==
    verify_wait.attempt # 0 =>
        verify_wait.slept
            >= 1000 * LinearWait(verify_wait.attempt, verify_wait.cause)

\* C27: a run that failed has executed _send_error_with_log exactly once,
\* whatever made it fail.
C27_OneErrorNotification ==
    (pc \in {"cleanup", "done", "exited"} /\ run_result = "false")
        => error_sends = 1

\* C28: sign_in() returns True only if a status check made during the call
\* returned "already_signed"; a click on the sign button alone is never
\* reported as success.
C28_TrueOnlyWhenSignedSeen ==
    /\ sign_ret = "true" => signed_seen
    /\ (spc = "action_ret" /\ action_ret) => signed_seen

\* C28 witness: the sign button has been clicked, the status after a reload
\* was "already_signed" and sign_in() has returned True.
C28_Witness ==
    /\ sign_ret = "true"
    /\ clicks >= 1
    /\ reloads >= 1
    /\ signed_seen

\* The stage has been entered in this run.
Entered(stage) == \E i \in 1..Len(events) : events[i] = stage

\* C29, as a condition on every step: a step that invokes login() is taken
\* with the browser created, the managers initialised and no failed step
\* before it; a step that carries out the human-like activities or the
\* sign-in is taken after a login() call of this run returned True.
C29_StageStep ==
    /\ login_calls' # login_calls =>
          /\ driver \in {"open", "quit"}
          /\ Entered("init_managers")
          /\ run_result = "none"
    /\ humanlike_outcome' # humanlike_outcome => login_result = "true"
    /\ signin_outcome' # signin_outcome => login_result = "true"

\* C29: a later stage never runs after an earlier one failed.
C29_NoStageAfterFailure == [][C29_StageStep]_vars

\* C29 witness: sign_in() has been invoked after a failed and a successful
\* login() call.
C29_Witness ==
    /\ login_calls = 2
    /\ login_result = "true"
    /\ signin_outcome \in {"true", "false"}
    /\ humanlike_outcome # "none"


\* ---- C30 ----
\* The positions of the teardown log that hold the given entry.
TeardownAt(entry) == {i \in 1..Len(teardown) : teardown[i] = entry}

\* The notifications of the finally block in the teardown log.
NotificationsAt == TeardownAt("summary") \cup TeardownAt("error_notify")

VerificationFailed ==
    spc = "action_ret" /\ ~action_ret /\ fail_cause = "verification"

\* C31, one step: the step of _perform_signin_action that ends on a failed
\* verification clicked once and neither reloaded the page nor checked the
\* status nor entered _verify_signin_success; the False then goes to sign_in(),
\* which returns False, or to the confirmation loop, which has attempts left
\* and goes on with its next attempt.
C31_VerificationStep ==
    /\ (spc = "action" /\ VerificationFailed') =>
           /\ clicks' = clicks + 1
           /\ reloads' = reloads
           /\ status_checks' = status_checks
           /\ stack' = stack
    /\ (VerificationFailed /\ stack = <<>>) =>
           (sign_ret' = "false" /\ spc' = "done")
    /\ (VerificationFailed /\ stack # <<>>) =>
           /\ stack[Len(stack)] + 1 < VERIFY_MAX_RETRIES
           /\ stack' = SetAttempt(stack, stack[Len(stack)] + 1)
           /\ spc' = "verify"
           /\ reloads' = reloads
           /\ status_checks' = status_checks

\* C31: a verification failure aborts the current sign-in attempt without a
\* reload or a status check, and the confirmation loop that made the attempt
\* goes on to its next attempt.
C31_VerificationFailureAborts == [][C31_VerificationStep]_vars

\* The confirmation loop is at its second attempt after a re-attempted click
\* failed on the verification.
C31_Witness ==
    /\ spc = "verify"
    /\ fail_cause = "verification"
    /\ stack = <<1>>
    /\ clicks = 2
    /\ reloads = 1


\* ---- C32 ----
\* C32: the quit() of a raw driver is invoked at most once, whatever
\* combination of run()'s cleanup, the signal handler and the atexit handler
\* executes.
C32_RawQuitAtMostOnce ==
    \A c \in 1..Len(chromes) : chromes[c].quits <= 1

\* ---- C33 ----
\* C33: after a quit_driver() call of the main flow has returned, the
\* manager's driver reference is None and the most recently created driver
\* has been quit.
C33_NoBrowserAfterQuit ==
    (phase = "running" /\ frames = <<>> /\ last_call = "quit") =>
        /\ mdriver = 0
        /\ chromes # <<>> => chromes[Len(chromes)].quits >= 1


\* ---- C34 ----
\* An attachment the loop sends: its file exists and its type is known.
Sendable(a) == a.path = "present" /\ a.type # "other"

\* The types of the sendable attachments among the first k of the list, in
\* list order.
RECURSIVE SendableTypes(_, _)
SendableTypes(atts, k) ==
    IF k = 0 THEN <<>>
    ELSE IF Sendable(atts[k])
         THEN Append(SendableTypes(atts, k - 1), atts[k].type)
         ELSE SendableTypes(atts, k - 1)

\* C34: the primary message is the first send; when it fails nothing else is
\* sent; otherwise the sends that follow it are those of the sendable
\* attachments the loop has passed, in list order, whatever the earlier
\* attachments did.
C34_PrimaryThenAttachmentsInOrder ==
    /\ sends # <<>> => sends[1] = "message"
    /\ npc = "primary" => sends = <<>>
    /\ (npc # "primary" /\ primary # "sent") => sends = <<"message">>
    /\ (npc # "primary" /\ primary = "sent") =>
           sends = <<"message">> \o SendableTypes(attachments, att_index - 1)
    /\ (npc = "done" /\ primary = "sent") => att_index = Len(attachments) + 1

\* The first attachment's send raised and the second one was still sent.
C34_Witness ==
    /\ npc = "done"
    /\ Len(attachments) = 2
    /\ attachments[1].send = "raises"
    /\ attachments[2].send = "sent"
    /\ Len(sends) = 3


\* ---- C35 ----
\* The counters of the operations other than op are left as they were.
OthersUnchanged(op) ==
    \A o \in Operations \ {op} : counters'[o] = counters[o]

\* C35, one step: can_retry(op) adds one to the counter of op and reset(op)
\* sets it to zero, both leaving every other counter unchanged; reset_all
\* leaves every counter at zero.
C35_CounterStep ==
    /\ \A op \in Operations :
           can_retry(op) =>
               (counters'[op] = counters[op] + 1 /\ OthersUnchanged(op))
    /\ \A op \in Operations :
           reset(op) => (counters'[op] = 0 /\ OthersUnchanged(op))
    /\ reset_all => \A o \in Operations : counters'[o] = 0

\* C35: the retry counters are per operation.
C35_CountersPerOperation == [][C35_CounterStep]_vars

\* Two operations have been counted separately and a third one not at all.
C35_Witness ==
    /\ counters["login"] = 2
    /\ counters["signin"] = 1
    /\ counters["reply"] = 0
    /\ retry_ret


\* ---- C36 ----
\* C36, the navigation: _navigate_to_signin_page makes at most NAV_ATTEMPTS
\* attempts; it returns True only when its last attempt clicked the link and
\* found the URL of the sign page, and False only after NAV_ATTEMPTS attempts
\* none of which did; after a False, sign_in() has returned False with no
\* status checked and no sign button clicked.
C36_NavigationChecked ==
    /\ Len(navigation.log) <= NAV_ATTEMPTS
    /\ spc = "navigated" => navigation.ret \in {"true", "false"}
    /\ navigation.ret = "true" =>
           /\ navigation.log # <<>>
           /\ navigation.log[Len(navigation.log)] = "ok"
           /\ \A i \in 1..(Len(navigation.log) - 1) : navigation.log[i] # "ok"
    /\ navigation.ret = "false" =>
           /\ Len(navigation.log) = NAV_ATTEMPTS
           /\ \A i \in 1..Len(navigation.log) : navigation.log[i] # "ok"
    /\ (spc = "done" /\ fail_cause = "navigation") =>
           /\ sign_ret = "false"
           /\ clicks = 0
           /\ reloads = 0
           /\ status_checks = 0
           /\ ~unknown_seen
           /\ ~signed_seen

\* C36, the step of sign_in() that follows the navigation: after a False
\* sign_in() returns False at once, and only after a True does it go on to
\* the status check.
C36_NavigationStep ==
    /\ (spc = "navigated" /\ navigation.ret = "false") =>
           (spc' = "done" /\ sign_ret' = "false" /\ fail_cause' = "navigation")
    /\ (spc # "first_check" /\ spc' = "first_check") => navigation.ret = "true"

\* C36: the navigation makes at most 3 attempts, succeeds only on the sign
\* page URL, and its failure ends sign_in() before any status check or click.
C36_NavigationGuardsSignIn == []C36_NavigationChecked /\ [][C36_NavigationStep]_vars

\* The navigation has failed three times in three different ways.
C36_Witness ==
    /\ spc = "navigated"
    /\ navigation.ret = "false"
    /\ navigation.log = <<"no_link", "wrong_url", "raises">>


\* ---- C37 ----
\* The URLs that occur in a list.
UrlsOf(posts) == {posts[i] : i \in 1..Len(posts)}

WatchdogThreadStep ==
    TimerExpires \/ HandlerCheck \/ TimeoutCallback \/ ForceTerminate
    \/ ForceKill

\* C38, one step: a step of the timer thread leaves the task results, the
\* retry counters, the driver reference with the browser behind it, and the
\* configuration as they were.
C38_ThreadStep ==
    WatchdogThreadStep =>
        UNCHANGED <<task_results, counters, mdriver, cleanup_done, chromes,
                    config>>

\* C38: the watchdog thread writes none of the main flow's state.
C38_WatchdogWritesNoAppState == [][C38_ThreadStep]_vars

\* The emergency notification has been sent with the log file while the
\* browser of the main flow is open and untouched.
C38_Witness ==
    /\ wpc = "terminate"
    /\ callback_calls = 1
    /\ emergency = <<"message", "document">>
    /\ mdriver = 1
    /\ chromes[1].quits = 0


\* ---- C39 ----
\* C39: a missing configuration file does not end the program when the
\* environment provides valid credentials.
C39_MissingFileNotFatal ==
    ~(pc = "config_missing" /\ ~config_file /\ _validate_config(config) = "ok")


\* ---- C40 ----
KeptFiles == {log_files[i] : i \in 1..Len(log_files)}
CreatedFile == log_files[Len(log_files)]
OldFiles == (KeptFiles \ {CreatedFile}) \cup removed_files
NewerValid(f) == {g \in OldFiles : g.kind = "valid" /\ g.id > f.id}
NonEmptyKept == {f \in KeptFiles : f.kind = "valid"}

====
